---- MODULE Spec2Model ----
(***************************************************************************)
(* A model of the cherow ECMAScript parser (src/src/parser.ts).            *)
(*                                                                         *)
(* The scanner and the expression parser are modelled at the level of     *)
(* code units: the Parser object is a record, every private method is an   *)
(* operator from records to records, and a thrown error is the field err.  *)
(* Source texts are sequences of one-character strings; the characters     *)
(* that have no printable form carry their name (LF, CR, LS, PS, SP, TAB), *)
(* and BT is the backtick.                                                 *)
(***************************************************************************)
EXTENDS Integers, Sequences, FiniteSets, TLC

VARIABLES
    source, index, line, column, flags, token, tokenValue, tokenRaw,
    tokenRegExp, startPos, startColumn, startLine, endPos, endColumn,
    endLine, comments, labelSet, functionScope, blockScope, parentScope,
    scopes, trace, err, context, pc, saved, returned, ast

vars == <<source, index, line, column, flags, token, tokenValue, tokenRaw,
          tokenRegExp, startPos, startColumn, startLine, endPos, endColumn,
          endLine, comments, labelSet, functionScope, blockScope, parentScope,
          scopes, trace, err, context, pc, saved, returned, ast>>

(***************************************************************************)
(* Bounds of the explored inputs.                                          *)
(***************************************************************************)
MaxScanLen == 3

MaxProbeLen == 3

(***************************************************************************)
(* Characters (Chars) and the sources built from them.                     *)
(***************************************************************************)
LineTerminators == {"LF", "CR", "LS", "PS"}

WhiteSpace == {"SP", "TAB"}

Digits == {"0", "1", "2", "3", "4", "5", "6", "7", "8", "9"}

IdentifierStart ==
    {"a", "b", "c", "d", "e", "f", "g", "h", "i", "j", "k", "l", "m", "n", "o",
     "p", "q", "r", "s", "t", "u", "v", "w", "x", "y", "z", "$", "_"}

isIdentifierPart(ch) == ch \in IdentifierStart \cup Digits

Strings(alphabet, n) == UNION {[1..k -> alphabet] : k \in 0..n}

(***************************************************************************)
(* The primitive cursor operations on the Parser object, a record p.       *)
(***************************************************************************)
error(p, type) == [p EXCEPT !.err = type]

\* this.error(type, ...params): the parameters of the message are recorded
\* in trace.
errorWith(p, type, params) ==
    error([p EXCEPT !.trace = Append(@, [op |-> "error", type |-> type,
                                         params |-> params])], type)

\* The scope objects created so far are the elements of scopes, and a
\* reference to one is its index; the reference undefined is 0.
Undefined == 0

\* Sequencing: F continues from the parser v unless v has thrown.
Then(v, F(_)) == IF v.err # "none" THEN v ELSE F(v)

hasNext(p) == p.index < Len(p.source)

charCodeAt(src, i) == IF i >= 0 /\ i < Len(src) THEN src[i + 1] ELSE "NaN"

nextChar(p) == charCodeAt(p.source, p.index)

\* String.prototype.charAt: the unit at offset i, or the empty string.
charAt(src, i) == IF i >= 0 /\ i < Len(src) THEN <<src[i + 1]>> ELSE <<>>

\* The number that a character read by charCodeAt stands for, as an offset:
\* NaN converts to 0. A character the table does not list is printable, and
\* its code (at most 65535) lies beyond the end of every source built here.
Code(ch) ==
    LET codes == ("NaN" :> 0) @@ ("TAB" :> 9) @@ ("LF" :> 10) @@ ("CR" :> 13)
    IN  IF ch \in DOMAIN codes THEN codes[ch] ELSE 65535

slice(src, from, to) ==
    LET end == IF to > Len(src) THEN Len(src) ELSE to
    IN  IF from >= end THEN <<>> ELSE SubSeq(src, from + 1, end)

advance(p) == [p EXCEPT !.index = @ + 1, !.column = @ + 1]

advanceNewline(p) ==
    [p EXCEPT !.flags = @ \cup {"LineTerminator"}, !.index = @ + 1,
              !.column = 0, !.line = @ + 1]

consume(p, code) == IF nextChar(p) # code THEN p ELSE advance(p)

(***************************************************************************)
(* Comments.                                                               *)
(***************************************************************************)
collectComment(p, type, value, start, end) ==
    [p EXCEPT !.comments = Append(@, [type |-> type, value |-> value,
                                      start |-> start, end |-> end])]

\* The line terminator that ends a comment line, and the LineFeed the
\* three comment skippers step over after it.
skipCommentNewline(p) ==
    LET q == advanceNewline(p)
    IN  IF hasNext(q) /\ nextChar(q) = "LF" THEN [q EXCEPT !.index = @ + 1] ELSE q

RECURSIVE skipShebangCommentCollected(_)
skipShebangCommentCollected(p) ==
    IF hasNext(p) /\ nextChar(p) \notin LineTerminators
    THEN skipShebangCommentCollected(advance(p))
    ELSE LET q == IF hasNext(p) THEN skipCommentNewline(p) ELSE p
         IN  collectComment(q, "SingleLineComment", slice(q.source, 2, q.index),
                            0, q.index)

RECURSIVE skipShebangComment(_)
skipShebangComment(p) ==
    IF ~hasNext(p) THEN p
    ELSE IF nextChar(p) \in LineTerminators THEN skipCommentNewline(p)
    ELSE skipShebangComment(advance(p))

RECURSIVE skipLine(_)
skipLine(p) ==
    IF ~hasNext(p) THEN p
    ELSE IF nextChar(p) \in LineTerminators THEN skipCommentNewline(p)
    ELSE skipLine(advance(p))

skipSingleLineComment(p, offset) ==
    Then(skipLine(p), LAMBDA q :
    IF "OptionsOnComment" \in q.flags
    THEN collectComment(q, "SingleLineComment",
                        slice(q.source, p.index, q.index), q.startPos, q.index)
    ELSE q)

\* The loop of skipMultiLineComment; the result carries closed in err.
RECURSIVE skipBlock(_)
skipBlock(p) ==
    IF ~hasNext(p) THEN error(p, "UnterminatedComment")
    ELSE IF nextChar(p) = "*"
         THEN LET q == advance(p)
              IN  IF nextChar(q) = "/" THEN advance(q) ELSE skipBlock(q)
    ELSE IF nextChar(p) \in LineTerminators THEN skipBlock(skipCommentNewline(p))
    ELSE skipBlock(advance(p))

skipMultiLineComment(p) ==
    Then(skipBlock(p), LAMBDA q :
    IF "OptionsOnComment" \in q.flags
    THEN collectComment(q, "MultiLineComment",
                        slice(q.source, p.index, q.index - 2), q.startPos, q.index)
    ELSE q)

(***************************************************************************)
(* Identifiers and numbers.                                                *)
(***************************************************************************)
\* The reserved words the explored sources can spell (token.ts).
descKeyword(str) ==
    CASE str = <<"l", "e", "t">> -> "LetKeyword"
      [] str = <<"i", "n">> -> "InKeyword"
      [] str = <<"i", "m", "p", "o", "r", "t">> -> "ImportKeyword"
      [] str = <<"a", "s", "y", "n", "c">> -> "AsyncKeyword"
      [] str = <<"f", "u", "n", "c", "t", "i", "o", "n">> -> "FunctionKeyword"
      [] str = <<"w", "h", "i", "l", "e">> -> "WhileKeyword"
      [] str = <<"d", "o">> -> "DoKeyword"
      [] str = <<"s", "w", "i", "t", "c", "h">> -> "SwitchKeyword"
      [] str = <<"c", "a", "s", "e">> -> "CaseKeyword"
      [] str = <<"d", "e", "f", "a", "u", "l", "t">> -> "DefaultKeyword"
      [] str = <<"b", "r", "e", "a", "k">> -> "BreakKeyword"
      [] str = <<"c", "o", "n", "t", "i", "n", "u", "e">> -> "ContinueKeyword"
      [] str = <<"c", "l", "a", "s", "s">> -> "ClassKeyword"
      [] str = <<"p", "a", "c", "k", "a", "g", "e">> -> "PackageKeyword"
      [] str = <<"v", "a", "r">> -> "VarKeyword"
      [] str = <<"c", "o", "n", "s", "t">> -> "ConstKeyword"
      [] str = <<"t", "h", "r", "o", "w">> -> "ThrowKeyword"
      [] OTHER -> "none"

RECURSIVE skipIdentifierPart(_)
skipIdentifierPart(p) ==
    IF hasNext(p) /\ isIdentifierPart(nextChar(p))
    THEN skipIdentifierPart(advance(p)) ELSE p

scanIdentifier(p, ctx) ==
    Then(skipIdentifierPart(p), LAMBDA q :
    LET str == slice(q.source, p.index, q.index)
        len == Len(str)
    IN  [q EXCEPT !.tokenValue = [string |-> str],
                  !.token = IF /\ len >= 2 /\ len <= 11 /\ str[1] \notin {"$", "_"}
                               /\ descKeyword(str) # "none"
                            THEN descKeyword(str) ELSE "Identifier"])

RECURSIVE skipDigits(_)
skipDigits(p) ==
    IF hasNext(p) /\ nextChar(p) \in Digits THEN skipDigits(advance(p)) ELSE p

scanNumber(p, ctx) ==
    Then(skipDigits(p), LAMBDA a :
    Then(IF nextChar(a) = "." THEN skipDigits(advance(a)) ELSE a, LAMBDA b :
    LET float == nextChar(a) = "."
        lowerN == nextChar(b) = "n"
        bigInt == lowerN /\ "OptionsNext" \in b.flags
        exponent == lowerN \/ nextChar(b) \in {"e", "E"}
    IN
    IF bigInt /\ float THEN error(b, "Unexpected") ELSE
    Then(IF exponent THEN advance(IF bigInt THEN advance(b) ELSE b) ELSE b, LAMBDA d :
    LET sign == exponent /\ nextChar(d) \in {"+", "-"}
        digits == exponent /\ (sign \/ nextChar(d) \in Digits)
    IN
    Then(IF digits THEN skipDigits(advance(IF sign THEN advance(d) ELSE d)) ELSE d,
         LAMBDA f :
    LET text == slice(f.source, p.index, IF digits THEN f.index ELSE b.index)
    IN  [f EXCEPT !.tokenRaw = IF "OptionsRaw" \in f.flags THEN text ELSE @,
                  !.tokenValue = [parseFloat |-> text],
                  !.token = IF bigInt THEN "BigIntLiteral" ELSE "NumericLiteral"]))))

(***************************************************************************)
(* Templates.                                                              *)
(***************************************************************************)
RECURSIVE scanTemplateLoop(_, _, _)
scanTemplateLoop(p, start, str) ==
    LET ch == nextChar(p)
        cont == ch = "$" /\ charCodeAt(p.source, p.index + 1) = "{"
        q == IF cont THEN [p EXCEPT !.index = @ + 1, !.column = @ + 1] ELSE p
        r == advance(q)
        nl == IF ch \in LineTerminators
              THEN [p EXCEPT !.column = -1, !.line = @ + 1] ELSE p
    IN  IF ch = "BT" \/ cont
        THEN [r EXCEPT !.tokenValue = [string |-> str],
                       !.tokenRaw = slice(r.source, start + 1,
                                          IF cont THEN r.index - 2 ELSE r.index - 1),
                       !.token = IF cont THEN "TemplateCont" ELSE "TemplateTail"]
        ELSE IF ch = "\\" THEN error(p, "NotModelled")
        ELSE IF ~hasNext(advance(nl)) THEN error(advance(nl), "UnterminatedTemplate")
        ELSE scanTemplateLoop(advance(nl), start, Append(str, ch))

scanTemplate(p, ctx) ==
    LET q == advance(p)
    IN  IF ~hasNext(q) THEN error(q, "UnterminatedTemplate")
        ELSE scanTemplateLoop(q, p.index, <<>>)

scanTemplateNext(p, ctx) ==
    IF ~hasNext(p) THEN error(p, "Unexpected")
    ELSE scanTemplate([p EXCEPT !.index = @ - 1, !.column = @ - 1], ctx)

(***************************************************************************)
(* Strings.  A token value that is a string (of a string literal, of an    *)
(* identifier or keyword, of a template) is the record [string |-> units]. *)
(***************************************************************************)
\* The loop of scanString; escapes are not followed.
\* toHex of common.ts: the value of a hexadecimal digit, or -1.
HexDigits ==
    [ch \in {"0", "1", "2", "3", "4", "5", "6", "7", "8", "9"} |->
        CASE ch = "0" -> 0 [] ch = "1" -> 1 [] ch = "2" -> 2 [] ch = "3" -> 3
          [] ch = "4" -> 4 [] ch = "5" -> 5 [] ch = "6" -> 6 [] ch = "7" -> 7
          [] ch = "8" -> 8 [] OTHER -> 9]
    @@ [ch \in {"a", "b", "c", "d", "e", "f"} |->
        CASE ch = "a" -> 10 [] ch = "b" -> 11 [] ch = "c" -> 12
          [] ch = "d" -> 13 [] ch = "e" -> 14 [] OTHER -> 15]
    @@ [ch \in {"A", "B", "C", "D", "E", "F"} |->
        CASE ch = "A" -> 10 [] ch = "B" -> 11 [] ch = "C" -> 12
          [] ch = "D" -> 13 [] ch = "E" -> 14 [] OTHER -> 15]

toHex(ch) == IF ch \in DOMAIN HexDigits THEN HexDigits[ch] ELSE -1

\* code << 4 | digit on 32-bit integers, for code >= 0 and digit >= -1: every
\* bit of -1 is set.
shiftOr(code, digit) == IF digit < 0 THEN -1 ELSE code * 16 + digit

\* String.fromCharCode(code): the code unit code mod 2^16, named after its
\* number where the sources use no character for it.
fromCharCode(code) ==
    LET unit == code % 65536
        named == (10 :> "LF") @@ (32 :> "SP") @@ (65 :> "A") @@ (68 :> "D")
    IN  IF unit \in DOMAIN named THEN named[unit] ELSE "U+" \o ToString(unit)

\* fromCodePoint of common.ts: one code unit, or a surrogate pair.
fromCodePoint(code) ==
    IF code <= 65535 THEN <<fromCharCode(code)>>
    ELSE <<fromCharCode(((code - 65536) \div 1024) + 55296),
           fromCharCode(((code - 65536) % 1024) + 56320)>>

LastUnicodeChar == 1114111

\* The loop over the digits between the braces; ret is the code.
RECURSIVE peekBracedDigits(_, _)
peekBracedDigits(p, code) ==
    IF nextChar(p) = "}" THEN [p EXCEPT !.ret = code]
    ELSE IF toHex(nextChar(p)) < 0 THEN error(p, "InvalidHexEscapeSequence")
    ELSE IF shiftOr(code, toHex(nextChar(p))) > LastUnicodeChar
    THEN error(p, "UnicodeOutOfRange")
    ELSE IF ~hasNext(advance(p)) THEN error(advance(p), "InvalidHexEscapeSequence")
    ELSE peekBracedDigits(advance(p), shiftOr(code, toHex(nextChar(p))))

\* The loop over the second, third and fourth digit, i of them read, and the
\* test of the last character read; ret is the code.
RECURSIVE peekFourDigits(_, _, _)
peekFourDigits(p, code, i) ==
    IF i = 3
    THEN IF nextChar(p) \in {"u", "U"} THEN error(p, "InvalidHexEscapeSequence")
         ELSE [p EXCEPT !.ret = code]
    ELSE IF ~hasNext(advance(p)) THEN error(advance(p), "InvalidHexEscapeSequence")
    ELSE IF code < 0 THEN error(advance(p), "InvalidHexEscapeSequence")
    ELSE peekFourDigits(advance(p),
                        shiftOr(code, toHex(nextChar(advance(p)))), i + 1)

\* ret is the code point.
peekExtendedUnicodeEscape(p) ==
    IF ~hasNext(advance(p)) THEN error(advance(p), "InvalidHexEscapeSequence")
    ELSE IF nextChar(advance(p)) = "{"
    THEN IF ~hasNext(advance(advance(p)))
         THEN error(advance(advance(p)), "InvalidHexEscapeSequence")
         ELSE IF nextChar(advance(advance(p))) = "}"
         THEN error(advance(advance(p)), "InvalidHexEscapeSequence")
         ELSE peekBracedDigits(advance(advance(p)), 0)
    ELSE IF advance(p).index + 3 < Len(p.source)
    THEN IF toHex(nextChar(advance(p))) < 0
         THEN error(advance(p), "InvalidHexEscapeSequence")
         ELSE peekFourDigits(advance(p), toHex(nextChar(advance(p))), 0)
    ELSE error(advance(p), "InvalidUnicodeEscapeSequence")

\* The escape \x, entered at the x; ret is the text it stands for.
scanHexEscape(p) ==
    IF ~hasNext(advance(p)) THEN error(advance(p), "UnterminatedString")
    ELSE IF toHex(nextChar(advance(p))) < 0
    THEN error(advance(p), "InvalidHexEscapeSequence")
    ELSE IF ~hasNext(advance(advance(p)))
    THEN error(advance(advance(p)), "UnterminatedString")
    ELSE IF toHex(nextChar(advance(advance(p)))) < 0
    THEN error(advance(advance(p)), "InvalidHexEscapeSequence")
    ELSE [advance(advance(p)) EXCEPT !.ret =
             fromCodePoint(shiftOr(toHex(nextChar(advance(p))),
                                   toHex(nextChar(advance(advance(p))))))]

\* Entered at the backslash; ret is the text the escape stands for.  The
\* octal escapes are not followed; an escaped character of no meaning gives
\* source.charAt(cp), the character at the offset that is its code, which
\* lies beyond the end of the sources modelled.
scanStringEscape(p, ctx) ==
    LET q == advance(p)
        cp == nextChar(q)
    IN  CASE cp = "b" -> [q EXCEPT !.ret = <<"BS">>]
          [] cp = "t" -> [q EXCEPT !.ret = <<"TAB">>]
          [] cp = "n" -> [q EXCEPT !.ret = <<"LF">>]
          [] cp = "v" -> [q EXCEPT !.ret = <<"VT">>]
          [] cp = "f" -> [q EXCEPT !.ret = <<"FF">>]
          [] cp = "r" -> [q EXCEPT !.ret = <<"CR">>]
          [] cp \in {"\\", "'", "\""} -> [q EXCEPT !.ret = <<cp>>]
          [] cp = "u" ->
               Then(peekExtendedUnicodeEscape(q), LAMBDA r :
               [r EXCEPT !.ret = fromCodePoint(r.ret)])
          [] cp = "x" -> scanHexEscape(q)
          [] cp \in {"0", "1", "2", "3", "4", "5", "6", "7"} ->
               error(q, "NotModelled")
          [] cp \in {"8", "9"} -> error(q, "InvalidEightAndNine")
          [] cp \in LineTerminators ->
               [(IF cp = "CR" /\ hasNext(q) /\ nextChar(q) = "LF"
                 THEN advance(q) ELSE q)
                   EXCEPT !.column = -1, !.line = @ + 1, !.ret = <<>>]
          [] OTHER -> [q EXCEPT !.ret = charAt(q.source, Code(cp))]

\* The loop of scanString; ret is the text cooked so far, start the index
\* from which the source has still to be added to it.
RECURSIVE scanStringLoop(_, _, _, _, _)
scanStringLoop(p, ctx, quote, ret, start) ==
    IF ~hasNext(p) THEN error(p, "UnterminatedString")
    ELSE IF nextChar(p) = quote
    THEN [p EXCEPT !.ret = ret \o slice(p.source, start, p.index)]
    ELSE IF nextChar(p) = "\\"
    THEN Then(scanStringEscape(p, ctx), LAMBDA e :
         scanStringLoop(advance(e), ctx, quote,
                        ret \o slice(p.source, start, p.index) \o e.ret,
                        e.index + 1))
    ELSE IF nextChar(p) \in LineTerminators THEN error(p, "UnterminatedString")
    ELSE scanStringLoop(advance(p), ctx, quote, ret, start)

scanString(p, ctx, quote) ==
    IF ~hasNext(advance(p)) THEN error(advance(p), "UnterminatedString")
    ELSE Then(scanStringLoop(advance(p), ctx, quote, <<>>, p.index + 1), LAMBDA q :
         [advance(q) EXCEPT
             !.tokenValue = [string |-> q.ret],
             !.tokenRaw = IF "OptionsRaw" \in q.flags
                          THEN slice(q.source, p.index, q.index + 1) ELSE @,
             !.token = "StringLiteral", !.ret = p.ret])

(***************************************************************************)
(* scanToken; the token it returns is stored by nextToken.                 *)
(***************************************************************************)
\* Punctuators of one code unit that need no lookahead.
Punctuator ==
    [ch \in {"~", "?", "[", "]", ",", ":", ";", "(", ")", "{", "#"} |->
        CASE ch = "~" -> "Complement"
          [] ch = "?" -> "QuestionMark"
          [] ch = "[" -> "LeftBracket"
          [] ch = "]" -> "RightBracket"
          [] ch = "," -> "Comma"
          [] ch = ":" -> "Colon"
          [] ch = ";" -> "Semicolon"
          [] ch = "(" -> "LeftParen"
          [] ch = ")" -> "RightParen"
          [] OTHER -> "LeftBrace"]

Return(p, tok) == [p EXCEPT !.token = tok]

RECURSIVE scanTokenLoop(_, _)
scanTokenLoop(p0, ctx) ==
    IF p0.err # "none" THEN p0
    ELSE IF ~hasNext(p0) THEN Return(p0, "EndOfSource")
    ELSE
    LET p == [p0 EXCEPT !.startPos = p0.index, !.startColumn = p0.column,
                        !.startLine = p0.line]
        first == nextChar(p)
        a == advance(p)
        next == nextChar(a)
        \* case Chars.Hyphen, entered at the hyphen or by falling out of the
        \* `<` case with the cursor h on whatever unit follows.
        Hyphen(h) ==
            LET m == advance(h)
            IN  CASE nextChar(m) = "-" ->
                       LET b == advance(m)
                       IN  IF nextChar(b) = ">"
                           THEN scanTokenLoop(
                                  IF "Module" \notin ctx \/ "LineTerminator" \in b.flags
                                  THEN skipSingleLineComment(advance(b), 3)
                                  ELSE advance(b), ctx)
                           ELSE Return(b, "Decrement")
                  [] nextChar(m) = "=" -> Return(advance(m), "SubtractAssign")
                  [] OTHER -> Return(m, "Subtract")
        \* The cursor after the && chain of consume calls of the `<` case.
        c1 == consume(a, "!")
        c2 == consume(c1, "-")
        c3 == consume(c2, "-")
        isHTMLOpen == /\ "Module" \notin ctx /\ c1.index > a.index
                      /\ c2.index > c1.index /\ c3.index > c2.index
        lt == CASE "Module" \in ctx -> a
                [] c1.index = a.index -> a
                [] c2.index = c1.index -> c1
                [] OTHER -> c2
    IN  CASE first \in {"CR", "LF"} ->
               LET n == advanceNewline(p)
               IN  scanTokenLoop(IF hasNext(n) /\ first = "CR" /\ nextChar(n) = "LF"
                                 THEN [n EXCEPT !.index = @ + 1] ELSE n, ctx)
          [] first \in {"LS", "PS"} -> scanTokenLoop(advanceNewline(p), ctx)
          [] first \in WhiteSpace -> scanTokenLoop(a, ctx)
          [] first = "/" ->
               CASE next = "/" -> scanTokenLoop(skipSingleLineComment(advance(a), 2), ctx)
                 [] next = "*" -> scanTokenLoop(skipMultiLineComment(advance(a)), ctx)
                 [] next = "=" -> Return(advance(a), "DivideAssign")
                 [] OTHER -> Return(a, "Divide")
          [] first = "<" ->
               IF isHTMLOpen THEN scanTokenLoop(skipSingleLineComment(c3, 4), ctx)
               ELSE CASE nextChar(lt) = "<" ->
                           IF nextChar(advance(lt)) = "="
                           THEN Return(advance(advance(lt)), "ShiftLeftAssign")
                           ELSE Return(advance(lt), "ShiftLeft")
                      [] nextChar(lt) = "=" -> Return(advance(lt), "LessThanOrEqual")
                      [] nextChar(lt) = "/" ->
                           IF \/ "OptionsJSX" \notin p.flags
                              \/ charCodeAt(p.source, lt.index + 1) \in {"*", "/"}
                           THEN Hyphen(lt)
                           ELSE Return(advance(lt), "JSXClose")
                      [] OTHER -> Return(lt, "LessThan")
          [] first = "-" -> Hyphen(p)
          [] first = ">" ->
               CASE "JSXChild" \in ctx -> Return(a, "GreaterThan")
                 [] next = "=" -> Return(advance(a), "GreaterThanOrEqual")
                 [] next # ">" -> Return(a, "GreaterThan")
                 [] OTHER ->
                      LET b == advance(a)
                      IN  CASE nextChar(b) = ">" ->
                                 IF nextChar(advance(b)) = "="
                                 THEN Return(advance(advance(b)), "LogicalShiftRightAssign")
                                 ELSE Return(advance(b), "LogicalShiftRight")
                            [] nextChar(b) = "=" -> Return(advance(b), "ShiftRightAssign")
                            [] OTHER -> Return(b, "ShiftRight")
          [] first = "!" ->
               CASE next # "=" -> Return(a, "Negate")
                 [] nextChar(advance(a)) # "=" -> Return(advance(a), "LooseNotEqual")
                 [] OTHER -> Return(advance(advance(a)), "StrictNotEqual")
          [] first = "#" /\ p.index = 0 /\ charCodeAt(p.source, 1) = "!" ->
               scanTokenLoop(skipShebangComment(advance(a)), ctx)
          [] first = "}" ->
               Return([a EXCEPT !.flags = @ \cup {"LineTerminator"}], "RightBrace")
          [] first \in DOMAIN Punctuator -> Return(a, Punctuator[first])
          [] first = "BT" -> scanTemplate(p, ctx)
          [] first \in {"\"", "'"} -> scanString(p, ctx, first)
          [] first = "*" ->
               CASE ~hasNext(a) -> Return(a, "Multiply")
                 [] next = "=" -> Return(advance(a), "MultiplyAssign")
                 [] next # "*" -> Return(a, "Multiply")
                 [] OTHER -> IF nextChar(advance(a)) = "="
                             THEN Return(advance(advance(a)), "ExponentiateAssign")
                             ELSE Return(advance(a), "Exponentiate")
          [] first = "+" ->
               CASE ~hasNext(a) -> Return(a, "Add")
                 [] next = "+" -> Return(advance(a), "Increment")
                 [] next = "=" -> Return(advance(a), "AddAssign")
                 [] OTHER -> Return(a, "Add")
          [] first = "=" ->
               CASE ~hasNext(a) -> Return(a, "Assign")
                 [] next = "=" -> IF nextChar(advance(a)) = "="
                                  THEN Return(advance(advance(a)), "StrictEqual")
                                  ELSE Return(advance(a), "LooseEqual")
                 [] next = ">" -> Return(advance(a), "Arrow")
                 [] OTHER -> Return(a, "Assign")
          [] first = "." ->
               CASE next \in Digits -> Return(scanNumber(p, ctx), "NumericLiteral")
                 [] next = "." /\ charCodeAt(p.source, p.index + 2) = "." ->
                      Return([p EXCEPT !.index = @ + 3, !.column = @ + 3], "Ellipsis")
                 [] OTHER -> Return(a, "Period")
          [] first = "0" ->
               IF \/ /\ p.index + 2 < Len(p.source)
                     /\ next \in {"x", "X", "b", "B", "o", "O"}
                  \/ /\ p.index + 1 < Len(p.source)
                     /\ next \in {"0", "1", "2", "3", "4", "5", "6", "7"}
               THEN error(p, "NotModelled")
               ELSE scanNumber(p, ctx)
          [] first \in Digits \ {"0"} -> scanNumber(p, ctx)
          [] first \in IdentifierStart -> scanIdentifier(p, ctx)
          [] OTHER -> error(p, "Unexpected")

scanToken(p, ctx) ==
    scanTokenLoop([p EXCEPT !.flags = @ \ {"LineTerminator"}, !.endPos = p.index,
                            !.endColumn = p.column, !.endLine = p.line], ctx)

\* Every method reaches the scanner through the one dispatcher of calls.
RECURSIVE Call(_, _, _, _)
nextToken(p, ctx) == Call("scanToken", p, ctx, <<>>)

(***************************************************************************)
(* Speculative lookahead: saveState, rewindState and the three probes.     *)
(***************************************************************************)
saveState(p) ==
    [index |-> p.index, column |-> p.column, line |-> p.line,
     startLine |-> p.startLine, endLine |-> p.endLine,
     startColumn |-> p.startColumn, endColumn |-> p.endColumn,
     token |-> p.token, tokenValue |-> p.tokenValue, tokenRaw |-> p.tokenRaw,
     startPos |-> p.startPos, endPos |-> p.endPos,
     tokenRegExp |-> p.tokenRegExp, flags |-> p.flags]

\* rewindState leaving the flags of the lookahead scan in place.
rewindStateKeepingFlags(p, state) ==
    [p EXCEPT !.index = state.index, !.column = state.column,
              !.line = state.line, !.token = state.token,
              !.tokenValue = state.tokenValue, !.startPos = state.startPos,
              !.endPos = state.endPos, !.endLine = state.endLine,
              !.startLine = state.startLine, !.startColumn = state.startColumn,
              !.endColumn = state.endColumn, !.tokenRegExp = state.tokenRegExp,
              !.tokenRaw = state.tokenRaw]

rewindState(p, state) ==
    [p EXCEPT !.index = state.index, !.column = state.column,
              !.line = state.line, !.token = state.token,
              !.tokenValue = state.tokenValue, !.startPos = state.startPos,
              !.endPos = state.endPos, !.endLine = state.endLine,
              !.startLine = state.startLine, !.startColumn = state.startColumn,
              !.endColumn = state.endColumn, !.tokenRegExp = state.tokenRegExp,
              !.tokenRaw = state.tokenRaw, !.flags = state.flags]

\* Tokens that carry the BindingPattern bit (token.ts).
BindingPattern == {"Identifier", "LeftBrace", "LeftBracket"}

\* Each probe yields the parser after the rewind, with the value it returns
\* in ret; an error thrown by the lookahead scan leaves the parser there.
nextTokenIsLeftParen(p, ctx) ==
    Then(nextToken(p, ctx), LAMBDA q :
    [rewindState(q, saveState(p)) EXCEPT !.ret = q.token = "LeftParen"])

isLexical(p, ctx) ==
    Then(nextToken(p, ctx), LAMBDA q :
    [rewindState(q, saveState(p)) EXCEPT !.ret = q.token \in BindingPattern])

nextTokenIsFunctionKeyword(p, ctx) ==
    Then(nextToken(p, ctx), LAMBDA q :
    [rewindState(q, saveState(p)) EXCEPT
        !.ret = p.line = q.line /\ q.token = "FunctionKeyword"])

(***************************************************************************)
(* Regular expressions: scanned on the parser's demand, never by scanToken.*)
(***************************************************************************)
\* The first loop of scanRegularExpression, at the local index i; ret is the
\* index after the closing slash, or -1 where the loop returns this.token.
RECURSIVE scanRegExpBody(_, _, _)

\* The loop without the character classes: a slash in a class ends the body.
scanRegExpBodyNoClass(p, i, preparseState) ==
    LET ch == charCodeAt(p.source, i)
        q == [p EXCEPT !.column = @ + 1]
        state == CASE "Escape" \in preparseState -> preparseState \ {"Escape"}
                   [] ch = "\\" -> preparseState \cup {"Escape"}
                   [] OTHER -> preparseState
    IN  IF "Escape" \notin preparseState /\ ch = "/" /\ preparseState = {}
        THEN [q EXCEPT !.ret = i + 1]
        ELSE IF "Escape" \notin preparseState /\ ch \in LineTerminators
        THEN [q EXCEPT !.index = i + 1, !.ret = -1]
        ELSE IF i + 1 >= Len(p.source) THEN error(q, "UnterminatedRegExp")
        ELSE scanRegExpBody(q, i + 1, state)

scanRegExpBody(p, i, preparseState) ==
    LET ch == charCodeAt(p.source, i)
        q == [p EXCEPT !.column = @ + 1]
        state == CASE "Escape" \in preparseState -> preparseState \ {"Escape"}
                   [] ch = "\\" -> preparseState \cup {"Escape"}
                   [] ch = "[" -> preparseState \cup {"Class"}
                   [] ch = "]" -> preparseState \cap {"Escape"}
                   [] OTHER -> preparseState
    IN  IF "Escape" \notin preparseState /\ ch = "/" /\ preparseState = {}
        THEN [q EXCEPT !.ret = i + 1]
        ELSE IF "Escape" \notin preparseState /\ ch \in LineTerminators
        THEN [q EXCEPT !.index = i + 1, !.ret = -1]
        ELSE IF i + 1 >= Len(p.source) THEN error(q, "UnterminatedRegExp")
        ELSE scanRegExpBody(q, i + 1, state)

\* The second loop, over the flags; ret is the index after the last flag.
RECURSIVE scanRegExpFlags(_, _, _)

\* The loop without the masks: a flag may come again.
scanRegExpFlagsRepeated(p, i, mask) ==
    LET code == charCodeAt(p.source, i)
        known == code \in {"g", "i", "m", "u", "y"}
                 \/ (code = "s" /\ "OptionsNext" \in p.flags)
    IN  IF i >= Len(p.source) \/ ~isIdentifierPart(code) THEN [p EXCEPT !.ret = i]
        ELSE IF ~known THEN error(p, "UnexpectedTokenRegExpFlag")
        ELSE scanRegExpFlags([p EXCEPT !.column = @ + 1], i + 1, mask \cup {code})

scanRegExpFlags(p, i, mask) ==
    LET code == charCodeAt(p.source, i)
        known == code \in {"g", "i", "m", "u", "y"}
                 \/ (code = "s" /\ "OptionsNext" \in p.flags)
    IN  IF i >= Len(p.source) \/ ~isIdentifierPart(code) THEN [p EXCEPT !.ret = i]
        ELSE IF known /\ code \in mask
        THEN errorWith(p, "DuplicateRegExpFlag", <<code>>)
        ELSE IF ~known THEN error(p, "UnexpectedTokenRegExpFlag")
        ELSE scanRegExpFlags([p EXCEPT !.column = @ + 1], i + 1, mask \cup {code})

\* scanRegularExpression taking the body to start where scanToken stopped,
\* which is one unit too far after the token /=.
scanRegularExpressionAtIndex(p) ==
    Then(scanRegExpBody(p, p.index, {}), LAMBDA b :
    IF b.ret = -1 THEN [b EXCEPT !.ret = b.token] ELSE
    Then(scanRegExpFlags(b, b.ret, {}), LAMBDA f :
    LET pattern == slice(f.source, p.index, b.ret - 1)
        regexFlags == slice(f.source, b.ret, f.ret)
    IN  [f EXCEPT !.endPos = f.index, !.index = f.ret,
                  !.tokenRegExp = [pattern |-> pattern, flags |-> regexFlags],
                  !.tokenValue = [tryCreate |-> <<pattern, regexFlags>>],
                  !.tokenRaw = IF "OptionsRaw" \in f.flags
                               THEN slice(f.source, f.startPos, f.ret) ELSE @,
                  !.ret = "RegularExpression"]))

\* ret is the token scanRegularExpression returns.
scanRegularExpression(p) ==
    Then(scanRegExpBody(p, p.startPos + 1, {}), LAMBDA b :
    IF b.ret = -1 THEN [b EXCEPT !.ret = b.token] ELSE
    Then(scanRegExpFlags(b, b.ret, {}), LAMBDA f :
    LET pattern == slice(f.source, p.startPos + 1, b.ret - 1)
        regexFlags == slice(f.source, b.ret, f.ret)
    IN  [f EXCEPT !.endPos = f.index, !.index = f.ret,
                  !.tokenRegExp = [pattern |-> pattern, flags |-> regexFlags],
                  !.tokenValue = [tryCreate |-> <<pattern, regexFlags>>],
                  !.tokenRaw = IF "OptionsRaw" \in f.flags
                               THEN slice(f.source, f.startPos, f.ret) ELSE @,
                  !.ret = "RegularExpression"]))

(***************************************************************************)
(* The bits of a token the parser tests (token.ts).  Of each class the     *)
(* tokens are listed that scanToken above can return.                      *)
(***************************************************************************)
AssignOperator ==
    {"Assign", "AddAssign", "SubtractAssign", "MultiplyAssign", "DivideAssign",
     "ExponentiateAssign", "ShiftLeftAssign", "ShiftRightAssign",
     "LogicalShiftRightAssign"}

UnaryOperator == {"Add", "Subtract", "Complement", "Negate"}

UpdateOperator == {"Increment", "Decrement"}

Contextual == {"AsyncKeyword"}

Reserved ==
    {"InKeyword", "ImportKeyword", "FunctionKeyword", "WhileKeyword", "DoKeyword",
     "SwitchKeyword", "CaseKeyword", "DefaultKeyword", "BreakKeyword",
     "ContinueKeyword", "ClassKeyword", "VarKeyword", "ConstKeyword",
     "ThrowKeyword"}

FutureReserved == {"PackageKeyword"}

Precedence ==
    [LooseEqual |-> 7, StrictEqual |-> 7, LooseNotEqual |-> 7,
     StrictNotEqual |-> 7, InKeyword |-> 8, LessThan |-> 8, GreaterThan |-> 8,
     LessThanOrEqual |-> 8, GreaterThanOrEqual |-> 8, ShiftLeft |-> 9,
     ShiftRight |-> 9, LogicalShiftRight |-> 9, Add |-> 10,
     Subtract |-> 10, Multiply |-> 11, Divide |-> 11, Exponentiate |-> 12]

tokenDesc ==
    [Assign |-> "=", AddAssign |-> "+=", SubtractAssign |-> "-=",
     MultiplyAssign |-> "*=", DivideAssign |-> "/=", ExponentiateAssign |-> "**=",
     Add |-> "+", Subtract |-> "-", Complement |-> "~", Increment |-> "++",
     Decrement |-> "--", LooseEqual |-> "==", StrictEqual |-> "===",
     InKeyword |-> "in", Multiply |-> "*", Divide |-> "/", Exponentiate |-> "**",
     VarKeyword |-> "var", LetKeyword |-> "let", ConstKeyword |-> "const",
     Negate |-> "!", LooseNotEqual |-> "!=", StrictNotEqual |-> "!==",
     LessThan |-> "<", GreaterThan |-> ">", LessThanOrEqual |-> "<=",
     GreaterThanOrEqual |-> ">=", ShiftLeft |-> "<<", ShiftRight |-> ">>",
     LogicalShiftRight |-> ">>>", ShiftLeftAssign |-> "<<=",
     ShiftRightAssign |-> ">>=", LogicalShiftRightAssign |-> ">>>="]

(***************************************************************************)
(* Nodes.  A parse method yields the parser with the node it returns in    *)
(* ret.                                                                    *)
(***************************************************************************)
Result(p, node) == [p EXCEPT !.ret = node]

\* F applied to the parser v, thrown or not.
Observe(v, F(_)) == F(v)

getLocations(p) ==
    [start |-> p.startPos, line |-> p.startLine, column |-> p.startColumn]

finishNode(p, loc, node) ==
    (IF "OptionsLoc" \in p.flags
     THEN [loc |-> [start |-> [line |-> loc.line, column |-> loc.column],
                    end |-> [line |-> p.endLine, column |-> p.endColumn]]]
     ELSE <<>>)
    @@ (IF "OptionsRanges" \in p.flags
        THEN [start |-> loc.start, end |-> p.endPos] ELSE <<>>)
    @@ node

finishNodeAt(p, start, end, node) ==
    (IF "OptionsLoc" \in p.flags
     THEN [loc |-> [start |-> [line |-> p.startLine, column |-> p.startColumn],
                    end |-> [line |-> p.endLine, column |-> p.endColumn]]]
     ELSE <<>>)
    @@ (IF "OptionsRanges" \in p.flags
        THEN [start |-> start, end |-> end] ELSE <<>>)
    @@ node

\* node.raw = raw, where the raw option is set.
withRaw(p, node, raw) ==
    IF "OptionsRaw" \in p.flags THEN [raw |-> raw] @@ node ELSE node

parseOptional(p, ctx, t) ==
    IF p.token # t THEN Result(p, FALSE) ELSE Result(nextToken(p, ctx), TRUE)

expect(p, ctx, t) ==
    IF p.token # t THEN error(p, "Unexpected") ELSE nextToken(p, ctx)

isEvalOrArguments(value) ==
    \/ value = [string |-> <<"e", "v", "a", "l">>]
    \/ value = [string |-> <<"a", "r", "g", "u", "m", "e", "n", "t", "s">>]

canConsumeSemicolon(p) ==
    \/ "LineTerminator" \in p.flags
    \/ p.token \in {"Semicolon", "RightBrace", "EndOfSource"}

\* The call is recorded in trace: the token it met, the source between the
\* previous token and that one, whether it threw, and whether it moved on.
consumeSemicolon(p, ctx) ==
    Observe(IF ~canConsumeSemicolon(p) THEN error(p, "UnexpectedToken")
            ELSE IF p.token = "Semicolon" THEN expect(p, ctx, "Semicolon") ELSE p,
            LAMBDA q :
    [q EXCEPT !.trace = Append(@,
        [op |-> "consumeSemicolon", token |-> p.token,
         before |-> slice(p.source, p.endPos, p.startPos),
         flagged |-> "LineTerminator" \in p.flags,
         threw |-> q.err = "UnexpectedToken",
         consumed |-> q.index # p.index \/ q.token # p.token])])

\* ret is the boolean isIdentifier returns.
isIdentifier(p, ctx, t) ==
    IF "Module" \in ctx
    THEN IF t \in FutureReserved THEN error(p, "UnexpectedStrictReserved")
         ELSE IF t = "AsyncKeyword" /\ "Await" \in ctx
         THEN error(p, "UnexpectedReservedWord")
         ELSE Result(p, t = "Identifier" \/ t \in Contextual)
    ELSE IF "Strict" \in ctx
    THEN IF t \in FutureReserved THEN error(p, "UnexpectedStrictReserved")
         ELSE Result(p, t = "Identifier" \/ t \in Contextual)
    ELSE IF t = "AsyncKeyword" /\ "Await" \in ctx
    THEN error(p, "UnexpectedReservedWord")
    ELSE Result(p, t = "Identifier" \/ t \in Contextual \/ t \in FutureReserved)

\* hasOwn.call(set, key) that finds no key.
hasOwnNothing(set, key) == FALSE

hasOwn(set, key) == key \in set

\* The value null of a node's field.
Null == [type |-> "null"]

isDirective(node) ==
    /\ node.type = "ExpressionStatement"
    /\ node.expression.type = "Literal"
    /\ "string" \in DOMAIN node.expression.value

UseStrict == [string |-> <<"u", "s", "e", "SP", "s", "t", "r", "i", "c", "t">>]

isValidSimpleAssignmentTarget(expr) ==
    expr.type \in {"Identifier", "MemberExpression"}

(***************************************************************************)
(* Literals, identifiers and template elements.                            *)
(***************************************************************************)
parseRegularExpression(p, ctx) ==
    Then(nextToken(p, ctx), LAMBDA q :
    Result(q, withRaw(q, finishNode(q, getLocations(p),
                                    [type |-> "Literal", value |-> p.tokenValue,
                                     regex |-> p.tokenRegExp]), p.tokenRaw)))

parseBigIntLiteral(p, ctx) ==
    Then(expect(p, ctx, "BigIntLiteral"), LAMBDA q :
    Result(q, withRaw(q, finishNode(q, getLocations(p),
                                    [type |-> "BigIntLiteral",
                                     value |-> p.tokenValue]), p.tokenRaw)))

parseLiteral(p, ctx) ==
    Then(nextToken(p, ctx), LAMBDA q :
    Result(q, withRaw(q, finishNode(q, getLocations(p),
                                    [type |-> "Literal", value |-> p.tokenValue]),
                      p.tokenRaw)))

parseIdentifier(p, ctx) ==
    Then(nextToken(p, ctx), LAMBDA q :
    Result(q, finishNode(q, getLocations(p),
                         [type |-> "Identifier", name |-> p.tokenValue])))

parseTemplateHead(p, ctx, cooked, raw) ==
    Then(scanTemplateNext(p, ctx), LAMBDA q :
    Result(q, finishNode(q, getLocations(p),
                         [type |-> "TemplateElement",
                          value |-> [cooked |-> cooked, raw |-> raw],
                          tail |-> FALSE])))

parseTemplateElement(p, ctx, pos) ==
    Then(expect(p, ctx, "TemplateTail"), LAMBDA q :
    Result(q, finishNode(q, pos,
                         [type |-> "TemplateElement",
                          value |-> [cooked |-> p.tokenValue, raw |-> p.tokenRaw],
                          tail |-> TRUE])))

parseTemplateTail(p, ctx, pos) ==
    Then(parseTemplateElement(p, ctx, pos), LAMBDA q :
    Result(q, finishNode(q, pos,
                         [type |-> "TemplateLiteral", expressions |-> <<>>,
                          quasis |-> <<q.ret>>])))

(***************************************************************************)
(* Expressions.  The methods call one another through Call, which stands   *)
(* for the invocation this.method(context, ...); the record a carries the  *)
(* arguments after context.  Branches taken only on tokens that scanToken  *)
(* above never returns (yield, await, super, new, ...) are left out, and   *)
(* the productions entered on a token it can return but which are not      *)
(* followed here end in the error NotModelled.                             *)
(***************************************************************************)

\* The loop of parseExpression, after the first expression.
RECURSIVE parseExpressions(_, _, _)
parseExpressions(p, ctx, expressions) ==
    IF p.token # "Comma" THEN Result(p, expressions)
    ELSE Then(nextToken(p, ctx), LAMBDA q :
         Then(Call("parseAssignmentExpression", q, ctx, <<>>), LAMBDA r :
         parseExpressions(r, ctx, Append(expressions, r.ret))))

parseExpression(p, ctx) ==
    Then(Call("parseAssignmentExpression", p, ctx, <<>>), LAMBDA q :
    IF q.token # "Comma" THEN q
    ELSE Then(parseExpressions(q, ctx, <<q.ret>>), LAMBDA r :
         Result(r, finishNode(r, getLocations(p),
                              [type |-> "SequenceExpression",
                               expressions |-> r.ret]))))

\* ret is the pattern that params has become; a walk that throws leaves
\* ret as it was, the tree being abandoned.
RECURSIVE reinterpretExpressionAsPattern(_, _, _)

\* The loop over params.properties, from the i-th on.
RECURSIVE reinterpretProperties(_, _, _, _)
reinterpretProperties(p, ctx, properties, i) ==
    IF i > Len(properties) THEN Result(p, properties)
    ELSE IF \/ "kind" \notin DOMAIN properties[i]
            \/ properties[i].kind # "init"
    THEN error(p, "UnexpectedToken")
    ELSE Then(reinterpretExpressionAsPattern(p, ctx,
                  IF properties[i].type = "SpreadElement" THEN properties[i]
                  ELSE properties[i].value), LAMBDA q :
         reinterpretProperties(q, ctx,
             [properties EXCEPT ![i] =
                 IF @.type = "SpreadElement" THEN q.ret
                 ELSE [@ EXCEPT !.value = q.ret]], i + 1))

\* The loop over params.elements, from the i-th on.
RECURSIVE reinterpretElements(_, _, _, _)
reinterpretElements(p, ctx, elements, i) ==
    IF i > Len(elements) THEN Result(p, elements)
    ELSE IF elements[i] = Null THEN reinterpretElements(p, ctx, elements, i + 1)
    ELSE Then(reinterpretExpressionAsPattern(p, ctx, elements[i]), LAMBDA q :
         reinterpretElements(q, ctx, [elements EXCEPT ![i] = q.ret], i + 1))

reinterpretExpressionAsPattern(p, ctx, params) ==
    CASE params.type \in {"Identifier", "MemberExpression", "AssignmentPattern",
                          "ArrayPattern", "ObjectPattern"} ->
           Result(p, params)
      [] params.type = "ObjectExpression" ->
           Then(reinterpretProperties(p, ctx, params.properties, 1), LAMBDA q :
           Result(q, [params EXCEPT !.type = "ObjectPattern",
                                    !.properties = q.ret]))
      [] params.type = "ArrayExpression" ->
           Then(reinterpretElements(p, ctx, params.elements, 1), LAMBDA q :
           Result(q, [params EXCEPT !.type = "ArrayPattern",
                                    !.elements = q.ret]))
      [] params.type = "AssignmentExpression" ->
           IF params.operator # "=" THEN error(p, "UnexpectedToken")
           ELSE Then(reinterpretExpressionAsPattern(p, ctx, params.left), LAMBDA q :
                Result(q, [f \in DOMAIN params \ {"operator"} |->
                             CASE f = "type" -> "AssignmentPattern"
                               [] f = "left" -> q.ret
                               [] OTHER -> params[f]]))
      [] params.type = "SpreadElement" ->
           IF params.argument.type = "AssignmentExpression"
           THEN error(p, IF "ForStatement" \in ctx THEN "InvalidLHSInForIn"
                         ELSE "InvalidLHSInAssignment")
           ELSE Then(reinterpretExpressionAsPattern(p, ctx, params.argument),
                     LAMBDA q :
                Result(q, [params EXCEPT !.type = "RestElement",
                                         !.argument = q.ret]))
      [] OTHER -> error(p, "UnexpectedToken")

parseConditionalExpression(p, ctx, expression, pos) ==
    IF p.token # "QuestionMark" THEN Result(p, expression)
    ELSE IF "ConciseBody" \notin ctx /\ "Arrow" \in p.flags THEN Result(p, expression)
    ELSE Then(nextToken(p, ctx), LAMBDA q :
         Then(Call("parseAssignmentExpression", q, ctx \ {"ConciseBody"}, <<>>),
              LAMBDA c :
         Then(expect(c, ctx, "Colon"), LAMBDA d :
         Then(Call("parseAssignmentExpression", d, ctx \ {"ConciseBody"}, <<>>),
              LAMBDA e :
         Result(e, finishNode(e, pos, [type |-> "ConditionalExpression",
                                       test |-> expression, consequent |-> c.ret,
                                       alternate |-> e.ret]))))))

parseAssignmentExpression(p, ctx) ==
    Then(Call("parseBinaryExpression", p, ctx,
              [precedence |-> 0, pos |-> getLocations(p)]), LAMBDA q :
    IF q.token \notin AssignOperator
    THEN parseConditionalExpression(q, ctx, q.ret, getLocations(p))
    ELSE
    Then(IF /\ "Strict" \in ctx /\ q.ret.type = "Identifier"
            /\ isEvalOrArguments(q.ret.name)
         THEN error(q, "StrictLHSAssignment")
         ELSE IF q.token = "Assign" THEN reinterpretExpressionAsPattern(q, ctx, q.ret)
         ELSE IF ~isValidSimpleAssignmentTarget(q.ret)
         THEN error(q, "InvalidLHSInAssignment")
         ELSE q, LAMBDA left :
    Then(nextToken(left, ctx), LAMBDA r :
    Then(Call("parseAssignmentExpression", r, ctx, <<>>), LAMBDA right :
    Result(right, finishNode(right, getLocations(p),
                             [type |-> "AssignmentExpression", left |-> left.ret,
                              operator |-> tokenDesc[q.token],
                              right |-> right.ret]))))))

getBinaryPrecedence(p, ctx) ==
    IF p.token \in DOMAIN Precedence THEN Precedence[p.token] ELSE 0

\* The loop of parseBinaryExpression, entered with the expression so far.
parseBinaryExpression(p, ctx, precedence, pos, expression) ==
    LET binaryPrecedence == getBinaryPrecedence(p, ctx)
        operator == IF p.token \in {"InKeyword", "Exponentiate"}
                    THEN binaryPrecedence >= precedence
                    ELSE binaryPrecedence > precedence
    IN  IF binaryPrecedence = 0 THEN Result(p, expression)
        ELSE IF p.token = "InKeyword" /\ "AllowIn" \notin ctx
        THEN Result(p, expression)
        ELSE IF ~operator THEN Result(p, expression)
        ELSE Then(nextToken(p, ctx), LAMBDA q :
             Then(Call("parseBinaryExpression", q, ctx,
                       [precedence |-> binaryPrecedence, pos |-> pos]), LAMBDA r :
             Call("parseBinaryExpression", r, ctx,
                  [precedence |-> precedence, pos |-> pos,
                   expression |-> finishNode(r, pos,
                                    [type |-> "BinaryExpression",
                                     left |-> expression, right |-> r.ret,
                                     operator |-> tokenDesc[p.token]])])))

parseUnaryExpression(p, ctx) ==
    Then(IF p.token \in UnaryOperator
         THEN Then(Call("buildUnaryExpression", p, ctx, <<>>), LAMBDA q :
              IF q.token = "Exponentiate" THEN error(q, "Unexpected") ELSE q)
         ELSE Call("parseUpdateExpression", p, ctx, [pos |-> getLocations(p)]),
         LAMBDA expr :
    IF expr.token # "Exponentiate" THEN expr
    ELSE Call("parseBinaryExpression", expr, ctx,
              [precedence |-> getBinaryPrecedence(expr, ctx),
               pos |-> getLocations(p), expression |-> expr.ret]))

buildUnaryExpression(p, ctx) ==
    IF p.token \in {"Add", "Subtract", "Complement", "Negate"}
    THEN Then(nextToken(p, ctx), LAMBDA q :
         Then(Call("buildUnaryExpression", q, ctx, <<>>), LAMBDA r :
         Result(r, finishNode(r, getLocations(p),
                              [type |-> "UnaryExpression",
                               operator |-> tokenDesc[p.token],
                               argument |-> r.ret, prefix |-> TRUE]))))
    ELSE Call("parseUpdateExpression", p, ctx, [pos |-> getLocations(p)])

parseUpdateExpression(p, ctx, pos) ==
    IF p.token \in UpdateOperator
    THEN Then(nextToken(p, ctx), LAMBDA q :
         Then(Call("parseLeftHandSideExpression", q, ctx, [pos |-> pos]), LAMBDA r :
         IF /\ "Strict" \in ctx /\ r.ret.type = "Identifier"
            /\ isEvalOrArguments(r.ret.name)
         THEN error(r, "StrictLHSPrefix")
         ELSE IF ~isValidSimpleAssignmentTarget(r.ret)
         THEN error(r, "InvalidLHSInAssignment")
         ELSE Result(r, finishNode(r, pos, [type |-> "UpdateExpression",
                                            operator |-> tokenDesc[p.token],
                                            prefix |-> TRUE, argument |-> r.ret]))))
    ELSE
    Then(Call("parseLeftHandSideExpression", p, ctx, [pos |-> pos]), LAMBDA q :
    IF q.token \notin UpdateOperator \/ "LineTerminator" \in q.flags THEN q
    ELSE IF /\ "Strict" \in ctx /\ q.ret.type = "Identifier"
            /\ isEvalOrArguments(q.ret.name)
    THEN error(q, "StrictLHSPostfix")
    ELSE IF ~isValidSimpleAssignmentTarget(q.ret)
    THEN error(q, "InvalidLHSInAssignment")
    ELSE Then(nextToken(q, ctx), LAMBDA r :
         Result(r, finishNode(r, pos, [type |-> "UpdateExpression",
                                       argument |-> q.ret,
                                       operator |-> tokenDesc[q.token],
                                       prefix |-> FALSE]))))

parseImportCall(p, ctx, pos) ==
    Then(expect(p, ctx, "ImportKeyword"), LAMBDA q :
    IF q.token # "LeftParen" THEN error(q, "UnexpectedToken")
    ELSE Result(q, finishNode(q, pos, [type |-> "Import"])))

parseLeftHandSideExpression(p, ctx, pos) ==
    IF p.token = "ImportKeyword"
    THEN IF "OptionsNext" \notin p.flags THEN error(p, "UnexpectedToken")
         ELSE Then(parseImportCall(p, ctx, pos), LAMBDA q :
              Call("parseCallExpression", q, ctx \cup {"DynamicImport"},
                   [pos |-> pos, expr |-> q.ret]))
    ELSE Then(Call("parseMemberExpression", p, ctx, [pos |-> pos]), LAMBDA q :
         IF "Arrow" \in q.flags THEN q
         ELSE Call("parseCallExpression", q, ctx, [pos |-> pos, expr |-> q.ret]))

\* The loop of parseArguments, after the left parenthesis.
RECURSIVE parseArgumentList(_, _, _)
parseArgumentList(p, ctx, args) ==
    IF p.token = "RightParen" THEN Result(p, args)
    ELSE IF p.token = "Ellipsis" THEN error(p, "NotModelled")
    ELSE IF /\ "AsyncArrow" \in p.flags /\ p.token = "Identifier"
            /\ isEvalOrArguments(p.tokenValue)
    THEN error(p, "UnexpectedStrictReserved")
    ELSE Then(Call("parseAssignmentExpression", p, ctx \ {"DynamicImport"}, <<>>),
              LAMBDA q :
         Then(parseOptional(q, ctx, "Comma"), LAMBDA r :
         IF r.ret THEN parseArgumentList(r, ctx, Append(args, q.ret))
         ELSE Result(r, Append(args, q.ret))))

parseArguments(p, ctx) ==
    Then(expect(p, ctx, "LeftParen"), LAMBDA q :
    Then(parseArgumentList(q, ctx, <<>>), LAMBDA r :
    Result(expect(r, ctx, "RightParen"), r.ret)))

parseCallExpression(p, ctx, pos, expr) ==
    Then(Call("parseMemberExpression", p, ctx, [pos |-> pos, expr |-> expr]),
         LAMBDA q :
    IF q.token # "LeftParen" THEN q
    ELSE Then(parseArguments(q, ctx), LAMBDA r :
         IF r.token = "Arrow" /\ "AsyncArrow" \in r.flags
         THEN Then(Call("parseArrowExpression", r, ctx \cup {"Await"},
                        [pos |-> pos, params |-> r.ret]), LAMBDA a :
              Call("parseCallExpression", [a EXCEPT !.flags = @ \ {"Arrow"}],
                   ctx, [pos |-> pos, expr |-> a.ret]))
         ELSE IF /\ "DynamicImport" \in ctx /\ Len(r.ret) # 1
                 /\ q.ret.type = "Import"
         THEN error(r, "BadImportCallArity")
         ELSE Call("parseCallExpression",
                   [r EXCEPT !.flags = @ \ {"Arrow"}], ctx,
                   [pos |-> pos,
                    expr |-> finishNode(r, pos, [type |-> "CallExpression",
                                                 arguments |-> r.ret,
                                                 callee |-> q.ret])])))

parseNonComputedMemberExpression(p, ctx, expr, pos) ==
    Then(parseIdentifier(p, ctx), LAMBDA q :
    Result(q, finishNode(q, pos, [type |-> "MemberExpression", object |-> expr,
                                  computed |-> FALSE, property |-> q.ret])))

parseComputedMemberExpression(p, ctx, expr, pos) ==
    Then(Call("parseExpression", p, ctx, <<>>), LAMBDA q :
    Result(q, finishNode(q, pos, [type |-> "MemberExpression", object |-> expr,
                                  computed |-> TRUE, property |-> q.ret])))

parseTaggedTemplateExpression(p, ctx, expr, quasi, pos) ==
    Result(p, finishNode(p, pos, [type |-> "TaggedTemplateExpression",
                                  tag |-> expr, quasi |-> quasi]))

\* The loop of parseMemberExpression, entered with the expression so far.
parseMemberExpression(p, ctx, pos, expr) ==
    CASE p.token = "Period" ->
           Then(nextToken(p, ctx), LAMBDA q :
           Then(parseNonComputedMemberExpression(
                    IF "Parenthesis" \in ctx
                    THEN [q EXCEPT !.flags = @ \cup {"HasMemberExpression"}]
                    ELSE q, ctx, expr, pos), LAMBDA r :
           Call("parseMemberExpression", r, ctx, [pos |-> pos, expr |-> r.ret])))
      [] p.token = "LeftBracket" ->
           Then(nextToken(p, ctx), LAMBDA q :
           IF "NewExpression" \in ctx /\ q.token = "RightBracket"
           THEN error(q, "InvalidStartOfExpression")
           ELSE Then(parseComputedMemberExpression(q, ctx \cup {"AllowIn"},
                                                   expr, pos), LAMBDA r :
                Then(expect(r, ctx, "RightBracket"), LAMBDA t :
                Call("parseMemberExpression", t, ctx,
                     [pos |-> pos, expr |-> finishNode(t, pos, r.ret)]))))
      [] p.token = "TemplateCont" ->
           Then(Call("parseTemplate", p, ctx, [pos |-> getLocations(p)]), LAMBDA q :
           Then(parseTaggedTemplateExpression(q, ctx, expr, q.ret, pos), LAMBDA r :
           Call("parseMemberExpression", r, ctx, [pos |-> pos, expr |-> r.ret])))
      [] p.token = "TemplateTail" ->
           Then(parseTemplateTail(p, ctx, getLocations(p)), LAMBDA q :
           Then(parseTaggedTemplateExpression(q, ctx, expr, q.ret, pos), LAMBDA r :
           Call("parseMemberExpression", r, ctx, [pos |-> pos, expr |-> r.ret])))
      [] OTHER -> Result(p, expr)

\* The first loop of parseTemplate, then the second.
RECURSIVE parseTemplateTails(_, _, _, _, _)
parseTemplateTails(p, ctx, pos, expressions, quasis) ==
    IF p.token = "TemplateTail"
    THEN Then(parseTemplateElement(p, ctx, pos), LAMBDA q :
         parseTemplateTails(q, ctx, pos, expressions, Append(quasis, q.ret)))
    ELSE Result(p, finishNode(p, pos, [type |-> "TemplateLiteral",
                                       expressions |-> expressions,
                                       quasis |-> quasis]))

RECURSIVE parseTemplateConts(_, _, _, _, _)
parseTemplateConts(p, ctx, pos, expressions, quasis) ==
    IF p.token = "TemplateCont"
    THEN Then(expect(p, ctx, "TemplateCont"), LAMBDA q :
         Then(Call("parseExpression", q, ctx, <<>>), LAMBDA e :
         Then(parseTemplateHead(e, ctx, p.tokenValue, p.tokenRaw), LAMBDA h :
         parseTemplateConts(h, ctx, pos, Append(expressions, e.ret),
                            Append(quasis, h.ret)))))
    ELSE parseTemplateTails(p, ctx, pos, expressions, quasis)

parseTemplate(p, ctx, pos) == parseTemplateConts(p, ctx, pos, <<>>, <<>>)

\* The loop of parseParenthesizedExpression over the commas; ret holds the
\* expressions and the state.
RECURSIVE parseParenthesizedList(_, _, _, _)
parseParenthesizedList(p, ctx, expr, state) ==
    IF p.token # "Comma" THEN Result(p, [expr |-> expr, state |-> state])
    ELSE Then(nextToken(p, ctx), LAMBDA q :
         IF q.token = "RightParen"
         THEN Then(nextToken(q, ctx), LAMBDA r :
              IF r.token # "Arrow" THEN error(r, "UnexpectedToken")
              ELSE parseParenthesizedList(r, ctx, expr,
                                          state \cup {"TrailingComma"}))
         ELSE IF q.token = "Ellipsis"
         THEN Then(Call("parseRestElement",
                        [q EXCEPT !.flags = @ \cup {"HasRest"}],
                        ctx \cup {"Binding"}, <<>>), LAMBDA r :
              Result(r, [expr |-> Append(expr, r.ret), state |-> state]))
         ELSE Then(Call("parseAssignmentExpression", q,
                        ctx \ {"ForStatement", "Parenthesis"}, <<>>), LAMBDA r :
              parseParenthesizedList(r, ctx, Append(expr, r.ret),
                  state \cup (IF q.token = "LeftParen" THEN {"WrappedInParen"}
                              ELSE {})
                        \cup (IF /\ q.token = "Identifier"
                                 /\ isEvalOrArguments(q.tokenValue)
                              THEN {"Reserved"} ELSE {}))))

parseParenthesizedExpression(p, ctx, pos) ==
    Then(expect(p, ctx, "LeftParen"), LAMBDA q :
    IF "ForStatement" \in ctx /\ q.token \in BindingPattern
    THEN error(q, "InvalidLHSInForLoop")
    ELSE IF q.token = "RightParen"
    THEN Then(nextToken(q, ctx), LAMBDA r :
         IF r.token = "Arrow"
         THEN Call("parseArrowExpression", r, ctx \ {"ForStatement"},
                   [pos |-> pos, params |-> <<>>])
         ELSE error(r, "MissingArrowAfterParentheses"))
    ELSE IF q.token = "Ellipsis" THEN error(q, "NotModelled")
    ELSE
    Then(Call("parseAssignmentExpression", q, ctx \ {"ForStatement"}, <<>>),
         LAMBDA first :
    Then(parseParenthesizedList(first, ctx, <<first.ret>>,
             IF /\ "Strict" \in ctx /\ q.token = "Identifier"
                /\ isEvalOrArguments(q.tokenValue)
             THEN {"Reserved"} ELSE {}), LAMBDA list :
    Then(IF "TrailingComma" \in list.ret.state THEN list
         ELSE expect(list, ctx, "RightParen"), LAMBDA r :
    IF r.token = "Arrow"
    THEN IF "LineTerminator" \in r.flags THEN error(r, "Unexpected")
         ELSE IF "WrappedInParen" \in list.ret.state THEN error(r, "Unexpected")
         ELSE IF "Yield" \in ctx /\ "InFunctionBody" \in r.flags
         THEN error(r, "YieldInParameter")
         ELSE IF "HasMemberExpression" \in r.flags
         THEN error(r, "InvalidParenthesizedPattern")
         ELSE IF "Reserved" \in list.ret.state THEN error(r, "StrictParamName")
         ELSE Call("parseArrowExpression", r, ctx \ {"ForStatement"},
                   [pos |-> pos, params |-> list.ret.expr])
    ELSE IF "HasRest" \in r.flags THEN error(r, "UnexpectedRestElement")
    ELSE IF Len(list.ret.expr) > 1
    THEN Result([r EXCEPT !.flags = @ \ {"Arrow"}],
                finishNodeAt(r, q.startPos, list.endPos,
                             [type |-> "SequenceExpression",
                              expressions |-> list.ret.expr]))
    ELSE Result([r EXCEPT !.flags = @ \ {"Arrow"}], list.ret.expr[1])))))

parseIdentifierOrArrow(p, ctx, pos) ==
    Then(isIdentifier(p, ctx, p.token), LAMBDA i :
    IF ~i.ret THEN error(i, "UnexpectedToken")
    ELSE Then(parseIdentifier(p, ctx), LAMBDA q :
         IF q.token # "Arrow" THEN q
         ELSE IF p.token \in Reserved THEN error(q, "UnexpectedToken")
         ELSE IF p.token \in FutureReserved /\ "Strict" \in ctx
         THEN error(q, "UnexpectedStrictReserved")
         ELSE IF "Strict" \in ctx /\ isEvalOrArguments(p.tokenValue)
         THEN error(q, "UnexpectedReservedWord")
         ELSE Call("parseArrowExpression",
                   IF p.token \in FutureReserved
                   THEN [q EXCEPT !.flags = @ \cup {"HasReservedWord"}] ELSE q,
                   (ctx \ {"Await"}) \cup {"Arrow", "SimpleArrow"},
                   [pos |-> pos, params |-> <<q.ret>>])))

parseThrowExpression(p, ctx) ==
    Then(nextToken(p, ctx), LAMBDA q :
    Then(Call("buildUnaryExpression", q, ctx, <<>>), LAMBDA r :
    Result(r, finishNode(r, getLocations(p),
                         [type |-> "ThrowExpression", expressions |-> r.ret]))))

\* case Token.AsyncKeyword of parsePrimaryExpression, as the cases of do and
\* throw enter it: the token is no async, so that parseFunctionExpression
\* has no async to take.
AsyncKeywordCase(p, ctx) ==
    Then(nextTokenIsFunctionKeyword(p, ctx), LAMBDA f :
    IF f.ret THEN Call("parseFunctionExpression", f, ctx, <<>>)
    ELSE
    Then(parseIdentifier([f EXCEPT !.flags = @ \ {"Arrow"}], ctx), LAMBDA expr :
    IF "LineTerminator" \in expr.flags THEN expr
    ELSE IF expr.token = "Arrow"
    THEN Call("parseArrowExpression", expr, ctx \ {"Parenthesis"},
              [pos |-> getLocations(p), params |-> <<expr.ret>>])
    ELSE
    Then(isIdentifier(expr, ctx, expr.token), LAMBDA i :
    IF ~i.ret
    THEN Result([expr EXCEPT !.flags = @ \cup {"AsyncArrow"}], expr.ret)
    ELSE IF "Strict" \in ctx /\ isEvalOrArguments(expr.tokenValue)
    THEN error(expr, "UnexpectedReservedWord")
    ELSE
    Then(parseIdentifier(expr, ctx), LAMBDA e :
    IF e.token # "Arrow" THEN error(e, "UnexpectedToken")
    ELSE Call("parseArrowExpression", e, (ctx \ {"Parenthesis"}) \cup {"Await"},
              [pos |-> getLocations(p), params |-> <<e.ret>>])))))

parsePrimaryExpression(p, ctx, pos) ==
    CASE p.token \in {"Divide", "DivideAssign"} ->
           Then(scanRegularExpression(p), LAMBDA q :
           IF q.ret = "RegularExpression" THEN parseRegularExpression(q, ctx)
           ELSE parseBigIntLiteral(q, ctx))
      [] p.token = "BigIntLiteral" -> parseBigIntLiteral(p, ctx)
      [] p.token \in {"NumericLiteral", "StringLiteral"} -> parseLiteral(p, ctx)
      [] p.token = "LeftParen" ->
           Call("parseParenthesizedExpression", p,
                (ctx \ {"Await"}) \cup {"AllowIn", "Parenthesis"}, [pos |-> pos])
      [] p.token = "TemplateTail" -> parseTemplateTail(p, ctx, pos)
      [] p.token = "TemplateCont" -> Call("parseTemplate", p, ctx, [pos |-> pos])
      [] p.token = "FunctionKeyword" -> Call("parseFunctionExpression", p, ctx, <<>>)
      [] p.token = "ClassKeyword" -> Call("parseClassExpression", p, ctx, <<>>)
      [] p.token = "DoKeyword" /\ "OptionsV8" \in p.flags ->
           Call("parseDoExpression", p, ctx, <<>>)
      [] /\ p.token \in {"DoKeyword", "ThrowKeyword"}
         /\ p.token = "DoKeyword" => "OptionsV8" \notin p.flags
         /\ "OptionsNext" \in p.flags -> parseThrowExpression(p, ctx)
      [] /\ p.token \in {"DoKeyword", "ThrowKeyword"}
         /\ p.token = "DoKeyword" => "OptionsV8" \notin p.flags
         /\ "OptionsNext" \notin p.flags -> AsyncKeywordCase(p, ctx)
      [] p.token = "AsyncKeyword" -> AsyncKeywordCase(p, ctx)
      [] p.token \in {"LeftBracket", "LeftBrace", "LetKeyword"} ->
           error(p, "NotModelled")
      [] OTHER -> parseIdentifierOrArrow(p, ctx \ {"Parenthesis"}, pos)

(***************************************************************************)
(* Scopes.  A scope object has a prototype and own properties: the names   *)
(* it holds with ScopeMasks.Shadowable and with ScopeMasks.NonShadowable.  *)
(***************************************************************************)
\* Object.create(proto), then F on the parser and the reference created.
ObjectCreate(p, proto) ==
    [p EXCEPT !.scopes = Append(@, [proto |-> proto, shadowable |-> {},
                                    nonShadowable |-> {}])]

\* scope[name], looked up along the prototype chain.
RECURSIVE Get(_, _, _)
Get(objects, scope, name) ==
    IF scope = Undefined THEN "undefined"
    ELSE IF name \in objects[scope].nonShadowable THEN "NonShadowable"
    ELSE IF name \in objects[scope].shadowable THEN "Shadowable"
    ELSE Get(objects, objects[scope].proto, name)

\* The names of the own properties of a scope object.
OwnNames(object) == object.shadowable \cup object.nonShadowable

\* scope[name] = mask.
Put(p, scope, name, mask) ==
    [p EXCEPT !.scopes[scope] =
        IF mask = "NonShadowable"
        THEN [@ EXCEPT !.nonShadowable = @ \cup {name}, !.shadowable = @ \ {name}]
        ELSE [@ EXCEPT !.shadowable = @ \cup {name}, !.nonShadowable = @ \ {name}]]

\* ret is the boolean initBlockScope returns.
initBlockScope(p) ==
    IF p.functionScope = Undefined
    THEN Then(ObjectCreate(p, Undefined), LAMBDA f :
         Then(ObjectCreate(f, Len(f.scopes)), LAMBDA b :
         Result([b EXCEPT !.functionScope = Len(f.scopes),
                          !.blockScope = Len(b.scopes),
                          !.parentScope = Len(b.scopes)], TRUE)))
    ELSE IF p.blockScope = Undefined
    THEN IF p.parentScope = Undefined THEN error(p, "TypeError")
         ELSE Then(ObjectCreate(p, p.parentScope), LAMBDA b :
              Result([b EXCEPT !.blockScope = Len(b.scopes),
                               !.parentScope = Len(b.scopes)], TRUE))
    ELSE Result(p, FALSE)

\* ret is the boolean initFunctionScope returns.
initFunctionScope(p) ==
    IF p.functionScope # Undefined THEN Result(p, FALSE)
    ELSE Then(ObjectCreate(p, Undefined), LAMBDA f :
         Result([f EXCEPT !.functionScope = Len(f.scopes),
                          !.blockScope = Len(f.scopes),
                          !.parentScope = Len(f.scopes)], TRUE))

addFunctionArg(p, name) ==
    Then(initFunctionScope(p), LAMBDA i :
    IF ~i.ret /\ Get(i.scopes, i.functionScope, name) # "undefined"
    THEN error(i, "DuplicateIdentifier")
    ELSE Put(i, i.functionScope, name, "Shadowable"))

addVarName(p, name) ==
    Then(initFunctionScope(p), LAMBDA i :
    IF /\ ~i.ret /\ i.blockScope # Undefined
       /\ Get(i.scopes, i.blockScope, name) = "NonShadowable"
    THEN error(i, "DuplicateIdentifier")
    ELSE Put(i, i.functionScope, name, "Shadowable"))

\* The names addBlockName refuses at once.
Unshadowable ==
    {[string |-> <<"I", "n", "f", "i", "n", "i", "t", "y">>],
     [string |-> <<"N", "a", "N">>],
     [string |-> <<"u", "n", "d", "e", "f", "i", "n", "e", "d">>]}

\* The call is recorded in trace: the name, where it stands, whether the
\* call threw and whether the name is NonShadowable in blockScope after it.
addBlockName(p, name) ==
    Observe(IF name \in Unshadowable THEN error(p, "DuplicateIdentifier")
            ELSE Then(initBlockScope(p), LAMBDA i :
                 IF /\ ~i.ret
                    /\ \/ Get(i.scopes, i.blockScope, name) = "Shadowable"
                       \/ hasOwn(OwnNames(i.scopes[i.blockScope]), name)
                 THEN error(i, "DuplicateIdentifier")
                 ELSE Put(i, i.blockScope, name, "NonShadowable")), LAMBDA q :
    [q EXCEPT !.trace = Append(@,
        [op |-> "addBlockName", name |-> name, start |-> p.startPos,
         threw |-> q.err = "DuplicateIdentifier",
         recorded |-> /\ q.blockScope # Undefined
                      /\ name \in q.scopes[q.blockScope].nonShadowable])])

\* Context.Lexical, the bits of a let and of a const declaration.
Lexical == {"Let", "Const"}

addVarOrBlock(p, ctx, name) ==
    IF ctx \cap Lexical # {} THEN addBlockName(p, name) ELSE addVarName(p, name)

\* The three references enterFunctionScope returns are those of the parser
\* it was called on.
enterFunctionScope(p) ==
    [p EXCEPT !.functionScope = Undefined, !.blockScope = Undefined,
              !.parentScope = Undefined]

exitFunctionScope(p, t) ==
    [p EXCEPT !.functionScope = t.functionScope, !.blockScope = t.blockScope,
              !.parentScope = t.parentScope]

parseBindingIdentifier(p, ctx) ==
    Then(IF "Binding" \in ctx THEN isIdentifier(p, ctx, p.token) ELSE Result(p, TRUE),
         LAMBDA i :
    IF ~i.ret THEN error(i, "UnexpectedToken")
    ELSE IF ctx \cap Lexical # {} /\ p.token = "LetKeyword"
    THEN error(i, "LetInLexicalBinding")
    ELSE IF /\ "Strict" \in ctx /\ p.token = "Identifier"
            /\ isEvalOrArguments(p.tokenValue)
    THEN error(i, "StrictLHSAssignment")
    ELSE IF "Strict" \in ctx /\ p.token \in FutureReserved
    THEN error(i, "UnexpectedToken")
    ELSE IF p.token \in Reserved THEN error(i, "UnexpectedStrictReserved")
    ELSE Then(IF "ForStatement" \in ctx THEN i
              ELSE addVarOrBlock(i, ctx, p.tokenValue), LAMBDA v :
         Then(nextToken(v, ctx), LAMBDA q :
         Result(q, finishNode(q, getLocations(p),
                              [type |-> "Identifier", name |-> p.tokenValue])))))

parseAssignmentPattern(p, ctx, left, pos) ==
    Then(Call("parseAssignmentExpression", p, ctx, <<>>), LAMBDA r :
    Result(r, finishNode(r, pos, [type |-> "AssignmentPattern", left |-> left,
                                  right |-> r.ret])))

parseArrayAssignmentPattern(p, ctx) ==
    Then(Call("parseBindingPatternOrIdentifier", p, ctx \cup {"Binding"}, <<>>),
         LAMBDA left :
    Then(parseOptional(left, ctx, "Assign"), LAMBDA o :
    IF ~o.ret THEN Result(o, left.ret)
    ELSE parseAssignmentPattern(o, ctx, left.ret, getLocations(p))))

\* The loop of parseAssignmentElementList, after the left bracket.
RECURSIVE parseAssignmentElements(_, _, _)
parseAssignmentElements(p, ctx, elements) ==
    IF p.token = "RightBracket" THEN Result(p, elements)
    ELSE IF p.token = "Comma"
    THEN Then(nextToken(p, ctx), LAMBDA q :
         parseAssignmentElements(q, ctx, Append(elements, Null)))
    ELSE IF p.token = "Ellipsis" THEN error(p, "NotModelled")
    ELSE Then(parseArrayAssignmentPattern(p, ctx \cup {"AllowIn"}), LAMBDA q :
         Then(IF q.token # "RightBracket" THEN expect(q, ctx, "Comma") ELSE q,
              LAMBDA r :
         parseAssignmentElements(r, ctx, Append(elements, q.ret))))

parseAssignmentElementList(p, ctx) ==
    Then(expect(p, ctx, "LeftBracket"), LAMBDA q :
    Then(parseAssignmentElements(
             IF "ArgumentList" \in q.flags
             THEN [q EXCEPT !.flags = @ \cup {"NonSimpleParameter"}] ELSE q,
             ctx, <<>>), LAMBDA e :
    Then(expect(e, ctx, "RightBracket"), LAMBDA r :
    Result(r, finishNode(r, getLocations(p),
                         [type |-> "ArrayPattern", elements |-> e.ret])))))

parseBindingPatternOrIdentifier(p, ctx) ==
    CASE p.token = "LeftBracket" -> parseAssignmentElementList(p, ctx)
      [] p.token = "LeftBrace" -> error(p, "NotModelled")
      [] OTHER -> parseBindingIdentifier(p, ctx)

parseRestElement(p, ctx) ==
    Then(expect(p, ctx, "Ellipsis"), LAMBDA q :
    Then(parseBindingPatternOrIdentifier(q, ctx \cup {"Binding"}), LAMBDA r :
    IF r.token = "Assign" THEN error(r, "DefaultRestParameter")
    ELSE IF r.token # "RightParen" THEN error(r, "ParameterAfterRestParameter")
    ELSE Result(r, finishNode(r, getLocations(p),
                              [type |-> "RestElement", argument |-> r.ret]))))

parseFormalParameter(p, ctx, objectFlags) ==
    Then(IF p.token \in FutureReserved
         THEN [p EXCEPT !.flags = @ \cup {"HasReservedWord"}] ELSE p, LAMBDA a :
    Then(IF a.token = "Identifier" /\ "Strict" \in ctx
         THEN addFunctionArg(a, a.tokenValue) ELSE a, LAMBDA b :
    Then(Call("parseBindingPatternOrIdentifier",
              IF b.token = "Identifier" /\ isEvalOrArguments(b.tokenValue)
              THEN [b EXCEPT !.flags = @ \cup {"HasEvalArgInParam"}] ELSE b,
              ctx \cup {"Binding"}, <<>>), LAMBDA param :
    Then(parseOptional(param, ctx, "Assign"), LAMBDA o :
    IF ~o.ret THEN Result(o, param.ret)
    ELSE parseAssignmentPattern(o, ctx, param.ret, getLocations(p))))))

\* The loop of parseFormalParameterList, after the left parenthesis.
RECURSIVE parseFormalParameters(_, _, _, _)
parseFormalParameters(p, ctx, objectFlags, result) ==
    IF p.token = "RightParen" THEN Result(p, result)
    ELSE IF p.token = "Ellipsis" THEN error(p, "NotModelled")
    ELSE Then(parseFormalParameter(p, ctx \ {"Method"}, objectFlags), LAMBDA q :
         Then(IF q.token # "RightParen" THEN expect(q, ctx \ {"Method"}, "Comma")
              ELSE q, LAMBDA r :
         parseFormalParameters(r, ctx \ {"Method"}, objectFlags,
                               Append(result, q.ret))))

parseFormalParameterList(p, ctx, objectFlags) ==
    Then(expect(p, ctx, "LeftParen"), LAMBDA q :
    IF q.token \in Reserved THEN error(q, "UnexpectedToken")
    ELSE
    Then(parseFormalParameters(
             [q EXCEPT !.flags = (@ \ {"NonSimpleParameter"}) \cup {"ArgumentList"}],
             ctx, objectFlags, <<>>), LAMBDA r :
    IF "Getter" \in objectFlags /\ Len(r.ret) > 0 THEN error(r, "BadGetterArity")
    ELSE IF "Setter" \in objectFlags /\ Len(r.ret) # 1
    THEN error(r, "BadSetterArity")
    ELSE Result(expect([r EXCEPT !.flags = @ \ {"ArgumentList"}], ctx, "RightParen"),
                r.ret)))

\* The loop of a block and the second loop of a function body: statement
\* list items up to the right brace.
RECURSIVE parseStatements(_, _, _)
parseStatements(p, ctx, body) ==
    IF p.token = "RightBrace" THEN Result(p, body)
    ELSE Then(Call("parseStatementListItem", p, ctx, <<>>), LAMBDA q :
         parseStatements(q, ctx, Append(body, q.ret)))

\* The first loop of parseFunctionBody, over the directives; ret holds the
\* statements and the context after it.
RECURSIVE parseDirectives(_, _, _)
parseDirectives(p, ctx, body) ==
    IF p.token = "RightBrace" THEN Result(p, [body |-> body, context |-> ctx])
    ELSE
    Then(Call("parseStatementListItem", p, ctx, <<>>), LAMBDA q :
    IF ~isDirective(q.ret)
    THEN Result(q, [body |-> Append(body, q.ret), context |-> ctx])
    ELSE IF q.ret.expression.value # UseStrict
    THEN parseDirectives(q, ctx, Append(body, q.ret))
    ELSE IF "HasReservedWord" \in q.flags THEN error(q, "UnexpectedStrictReserved")
    ELSE IF "HasEvalArgInParam" \in q.flags THEN error(q, "StrictParamName")
    ELSE IF "NonSimpleParameter" \in q.flags THEN error(q, "IllegalUseStrict")
    ELSE Result(q, [body |-> Append(body, q.ret),
                    context |-> ctx \cup {"Strict"}]))

\* parseFunctionBody leaving labelSet as the enclosing statements set it.
parseFunctionBodyKeepingLabels(p, ctx) ==
    Then(expect([p EXCEPT !.flags = @ \cup {"InFunctionBody"}], ctx, "LeftBrace"),
         LAMBDA q :
    Then(parseDirectives(q, ctx, <<>>), LAMBDA d :
    Then(parseStatements(d, d.ret.context, d.ret.body), LAMBDA s :
    Then(expect([s EXCEPT !.labelSet = p.labelSet, !.flags = p.flags],
                d.ret.context, "RightBrace"), LAMBDA r :
    Result(r, finishNode(r, getLocations(p),
                         [type |-> "BlockStatement", body |-> s.ret]))))))

parseFunctionBody(p, ctx) ==
    Then(expect([p EXCEPT !.flags = @ \cup {"InFunctionBody"}], ctx, "LeftBrace"),
         LAMBDA q :
    Then(parseDirectives([q EXCEPT !.labelSet = {}], ctx, <<>>), LAMBDA d :
    Then(parseStatements(d, d.ret.context, d.ret.body), LAMBDA s :
    Then(expect([s EXCEPT !.labelSet = p.labelSet, !.flags = p.flags],
                d.ret.context, "RightBrace"), LAMBDA r :
    Result(r, finishNode(r, getLocations(p),
                         [type |-> "BlockStatement", body |-> s.ret]))))))

(***************************************************************************)
(* Functions, classes and do expressions.  Generators and async functions  *)
(* end in NotModelled.                                                     *)
(***************************************************************************)
\* The name of a function or class declared in a block is entered in
\* blockScope as Shadowable.
declareInBlock(p, name) ==
    Then(initBlockScope(p), LAMBDA i :
    IF /\ ~i.ret /\ Get(i.scopes, i.blockScope, name) # "undefined"
       /\ \/ Get(i.scopes, i.blockScope, name) = "NonShadowable"
          \/ i.blockScope # i.functionScope
    THEN error(i, "DuplicateIdentifier")
    ELSE Put(i, i.blockScope, name, "Shadowable"))

\* ret is the parameter as parseArrowFormalParameter leaves it.  Array and
\* object literals, spread and rest elements are not among the expressions.
RECURSIVE parseArrowFormalParameter(_, _, _)
parseArrowFormalParameter(p, ctx, params) ==
    CASE params.type = "Identifier" ->
           Result(addFunctionArg(p, params.name), params)
      [] params.type = "AssignmentPattern" ->
           Then(parseArrowFormalParameter(p, ctx, params.left), LAMBDA l :
           Result(l, [params EXCEPT !.left = l.ret]))
      [] params.type = "AssignmentExpression" ->
           Then(parseArrowFormalParameter(p, ctx, params.left), LAMBDA l :
           Result(l, [k \in DOMAIN params \ {"operator"} |->
                         IF k = "type" THEN "AssignmentPattern"
                         ELSE IF k = "left" THEN l.ret ELSE params[k]]))
      [] params.type = "RestElement" ->
           Then(parseArrowFormalParameter(p, ctx, params.argument), LAMBDA l :
           Result(l, [params EXCEPT !.argument = l.ret]))
      [] params.type \in {"SpreadElement", "ArrayExpression",
                          "ArrayPattern", "ObjectExpression", "ObjectPattern"} ->
           error(p, "NotModelled")
      [] OTHER -> error(p, "UnexpectedToken")

\* The loop of parseArrowFormalList from the index idx.
RECURSIVE parseArrowFormalList(_, _, _, _)
parseArrowFormalList(p, ctx, params, idx) ==
    IF idx > Len(params) THEN Result(p, params)
    ELSE Then(parseArrowFormalParameter(p, ctx, params[idx]), LAMBDA q :
         parseArrowFormalList(q, ctx, [params EXCEPT ![idx] = q.ret], idx + 1))

parseArrowExpression(p, ctx, pos, params) ==
    IF "LineTerminator" \in p.flags THEN error(p, "UnexpectedArrow")
    ELSE
    Then(expect(p, ctx, "Arrow"), LAMBDA q :
    Then(IF "SimpleArrow" \in ctx
         THEN Result(enterFunctionScope(
                         [q EXCEPT !.flags = (@ \ {"AsyncArrow"}) \cup {"Arrow"}]),
                     params)
         ELSE parseArrowFormalList(
                  enterFunctionScope(
                      [q EXCEPT !.flags = (@ \ {"AsyncArrow"}) \cup {"Arrow"}]),
                  ctx \cup {"Binding"}, params, 1), LAMBDA list :
    Then(IF list.token = "LeftBrace"
         THEN parseFunctionBody(list, ctx \ {"SimpleArrow", "Yield", "Parenthesis"})
         ELSE Call("parseAssignmentExpression",
                   [list EXCEPT !.flags = @ \ {"Arrow"}],
                   (ctx \ {"SimpleArrow", "Yield"})
                       \cup {"ConciseBody", "Parenthesis"}, <<>>), LAMBDA body :
    Result(exitFunctionScope(body, q),
           finishNode(body, pos,
                      [type |-> "ArrowFunctionExpression", id |-> Null,
                       params |-> list.ret, body |-> body.ret,
                       generator |-> FALSE,
                       expression |-> list.token # "LeftBrace",
                       async |-> "Await" \in ctx])))))

parseFunctionDeclaration(p, ctx) ==
    Then(expect(p, ctx \ {"Await", "Yield"}, "FunctionKeyword"), LAMBDA q :
    IF q.token = "Multiply" THEN error(q, "NotModelled")
    ELSE
    Then(IF q.token = "LeftParen"
         THEN IF "OptionalIdentifier" \in ctx THEN Result(q, Null)
              ELSE error(q, "UnNamedFunctionStmt")
         ELSE Then(IF "Statement" \in ctx /\ "AnnexB" \notin ctx
                   THEN declareInBlock(q, q.tokenValue) ELSE q, LAMBDA d :
              parseBindingIdentifier(d, ctx \ {"Await", "Yield", "Statement"})),
         LAMBDA id :
    Then(parseFormalParameterList(
             enterFunctionScope(id),
             ctx \ {"Await", "Yield", "Statement", "OptionalIdentifier"}, {}),
         LAMBDA params :
    Then(parseFunctionBody(
             params, ctx \ {"Await", "Yield", "Statement", "OptionalIdentifier"}),
         LAMBDA body :
    Result([exitFunctionScope(body, id) EXCEPT !.flags = p.flags],
           finishNode(body, getLocations(p),
                      [type |-> "FunctionDeclaration", params |-> params.ret,
                       body |-> body.ret, async |-> FALSE, generator |-> FALSE,
                       expression |-> FALSE, id |-> id.ret]))))))

parseFunctionExpression(p, ctx) ==
    Then(expect(p, ctx \ {"Await", "Yield"}, "FunctionKeyword"), LAMBDA q :
    IF q.token = "Multiply" THEN error(q, "NotModelled")
    ELSE
    Then(IF q.token = "LeftParen" THEN Result(q, Null)
         ELSE IF /\ "Strict" \in ctx /\ q.token = "Identifier"
                 /\ isEvalOrArguments(q.tokenValue)
         THEN error(q, "StrictLHSAssignment")
         ELSE IF "Module" \in ctx /\ q.token \in FutureReserved
         THEN error(q, "UnexpectedStrictReserved")
         ELSE parseIdentifier(q, ctx \ {"Await", "Yield"}), LAMBDA name :
    Then(parseFormalParameterList(enterFunctionScope(name),
                                  ctx \ {"Await", "Yield"}, {}), LAMBDA params :
    Then(parseFunctionBody(params, ctx \ {"Await", "Yield"}), LAMBDA body :
    Result(exitFunctionScope(body, name),
           finishNode(body, getLocations(p),
                      [type |-> "FunctionExpression", params |-> params.ret,
                       body |-> body.ret, async |-> FALSE, generator |-> FALSE,
                       expression |-> FALSE, id |-> name.ret]))))))

parseFunctionMethod(p, ctx, objectFlags) ==
    Then([p EXCEPT !.flags = @ \cup {"AllowConstructorWithSupoer"}
                                \cup (IF "HasConstructor" \in ctx THEN {}
                                      ELSE {"AllowSuper"})], LAMBDA a :
    Then(parseFormalParameterList(enterFunctionScope(a),
                                  (ctx \ {"Yield"}) \cup {"Method"}, objectFlags),
         LAMBDA params :
    Then(parseFunctionBody(params, ctx \ {"Yield"}), LAMBDA body :
    Result([exitFunctionScope(body, p) EXCEPT !.flags = a.flags],
           finishNode(body, getLocations(p),
                      [type |-> "FunctionExpression", id |-> Null,
                       params |-> params.ret, body |-> body.ret,
                       generator |-> FALSE, async |-> FALSE,
                       expression |-> FALSE])))))

parseComputedPropertyName(p, ctx) ==
    Then(expect(p, ctx, "LeftBracket"), LAMBDA q :
    Then(Call("parseExpression", q, ctx \cup {"AllowIn"}, <<>>), LAMBDA e :
    Result(expect(e, ctx, "RightBracket"), e.ret)))

\* The keywords static, get and set are not among the tokens, so that of
\* the modifiers only the loss of Strict at the test for get remains.
parseClassElement(p, ctx) ==
    Then(parseOptional(p, ctx \ {"Strict"}, "AsyncKeyword"), LAMBDA m :
    IF m.ret \/ m.token = "Multiply" THEN error(m, "NotModelled")
    ELSE
    Then(CASE m.token = "Identifier" -> parseIdentifier(m, ctx \ {"Strict"})
           [] m.token \in {"NumericLiteral", "StringLiteral"} ->
                parseLiteral(m, ctx \ {"Strict"})
           [] m.token = "LeftBracket" ->
                parseComputedPropertyName(m, ctx \ {"Strict"})
           [] OTHER ->
                Then(isIdentifier(m, ctx \ {"Strict"}, m.token), LAMBDA i :
                IF i.ret THEN parseIdentifier(m, ctx \ {"Strict"})
                ELSE error(i, "Unexpected")), LAMBDA key :
    LET constructor ==
            /\ m.token \in {"Identifier", "NumericLiteral", "StringLiteral"}
            /\ m.tokenValue = [string |-> <<"c", "o", "n", "s", "t", "r", "u", "c",
                                            "t", "o", "r">>]
    IN
    IF constructor /\ "HasConstructor" \in ctx THEN error(key, "DuplicateConstructor")
    ELSE
    Then(parseFunctionMethod(key, ctx \cup {"Strict"}, {}),
         LAMBDA value :
    Result(value, finishNode(value, getLocations(p),
                             [type |-> "MethodDefinition",
                              computed |-> m.token = "LeftBracket",
                              key |-> key.ret,
                              kind |-> IF constructor THEN "constructor"
                                       ELSE "method",
                              static |-> FALSE, value |-> value.ret])))))

RECURSIVE parseClassElementList(_, _, _)
parseClassElementList(p, ctx, body) ==
    IF p.token = "RightBrace" THEN Result(p, body)
    ELSE IF p.token = "Semicolon"
    THEN Then(nextToken(p, ctx), LAMBDA q : parseClassElementList(q, ctx, body))
    ELSE Then(parseClassElement(p, ctx \ {"OptionalIdentifier"}), LAMBDA q :
         parseClassElementList(q,
             IF q.ret.kind = "constructor" THEN ctx \cup {"HasConstructor"} ELSE ctx,
             Append(body, q.ret)))

parseClassBody(p, ctx) ==
    Then(expect(p, ctx, "LeftBrace"), LAMBDA q :
    Then(parseClassElementList(q, ctx, <<>>), LAMBDA list :
    Then(expect(list, ctx, "RightBrace"), LAMBDA r :
    Result(r, finishNode(r, getLocations(p),
                         [type |-> "ClassBody", body |-> list.ret])))))

\* The keyword extends is not among the tokens: superClass is null.
parseClassDeclaration(p, ctx) ==
    Then(expect(p, ctx, "ClassKeyword"), LAMBDA q :
    Then(isIdentifier(q, ctx, q.token), LAMBDA i :
    Then(IF i.ret
         THEN Then(IF "Statement" \in ctx THEN declareInBlock(q, q.tokenValue)
                   ELSE q, LAMBDA d :
              parseBindingIdentifier(d, ctx \cup {"Strict"}))
         ELSE IF "OptionalIdentifier" \in ctx THEN Result(q, Null)
         ELSE error(q, "UnNamedClassStmt"), LAMBDA id :
    Then(parseClassBody(id, ctx \cup {"Strict"}), LAMBDA body :
    Result(body, finishNode(body, getLocations(p),
                            [type |-> "ClassDeclaration", id |-> id.ret,
                             superClass |-> Null, body |-> body.ret]))))))

parseClassExpression(p, ctx) ==
    Then(expect(p, ctx, "ClassKeyword"), LAMBDA q :
    Then(isIdentifier(q, ctx, q.token), LAMBDA i :
    Then(IF i.ret THEN parseIdentifier(q, ctx \cup {"Strict"}) ELSE Result(q, Null),
         LAMBDA id :
    Then(parseClassBody(id, ctx), LAMBDA body :
    Result(body, finishNode(body, getLocations(p),
                            [type |-> "ClassExpression", id |-> id.ret,
                             superClass |-> Null, body |-> body.ret]))))))

parseBlockStatement(p, ctx) ==
    Then(expect([p EXCEPT !.parentScope = IF p.blockScope # Undefined
                                          THEN p.blockScope ELSE @,
                          !.blockScope = IF "IfClause" \in ctx THEN @
                                         ELSE Undefined],
                ctx, "LeftBrace"), LAMBDA q :
    Then(parseStatements(q, ctx \cup {"Statement"}, <<>>), LAMBDA s :
    Then(expect(s, ctx, "RightBrace"), LAMBDA r :
    Result([r EXCEPT !.flags = p.flags, !.blockScope = p.blockScope,
                     !.parentScope = IF p.parentScope # Undefined
                                     THEN p.parentScope ELSE @,
                     !.trace = Append(@,
                         [op |-> "parseBlockStatement",
                          blockScope |-> <<p.blockScope, p.blockScope>>,
                          parentScope |->
                              <<p.parentScope,
                                IF p.parentScope # Undefined
                                THEN p.parentScope ELSE r.parentScope>>])],
           finishNode(r, getLocations(p),
                      [type |-> "BlockStatement", body |-> s.ret])))))

parseDoExpression(p, ctx) ==
    Then(expect(p, ctx, "DoKeyword"), LAMBDA q :
    Then(parseBlockStatement(q, ctx), LAMBDA body :
    Result(body, finishNode(body, getLocations(p),
                            [type |-> "DoExpression", body |-> body.ret]))))

(***************************************************************************)
(* Statements.  The statements entered on a keyword that is not among the  *)
(* tokens (var, try, return, if, for, ...) are left out.                   *)
(***************************************************************************)
parseEmptyStatement(p, ctx) ==
    Then(nextToken(p, ctx), LAMBDA q :
    Result(q, finishNode(q, getLocations(p), [type |-> "EmptyStatement"])))

\* The loop of parseSwitchCase over the consequent.
RECURSIVE parseConsequent(_, _, _)
parseConsequent(p, ctx, consequent) ==
    IF p.token \in {"RightBrace", "DefaultKeyword", "CaseKeyword"}
    THEN Result(p, consequent)
    ELSE Then(Call("parseStatementListItem", p, ctx, <<>>), LAMBDA q :
         parseConsequent(q, ctx, Append(consequent, q.ret)))

JumpFlags == {"Break", "Continue", "Switch"}

\* The flags a loop body is parsed under, recorded in trace.
IterationBody(p) ==
    [p EXCEPT !.trace = Append(@, [op |-> "iterationBody",
                                   flags |-> p.flags \cap JumpFlags])]

\* The flags before the statement that started at p and after it, at r,
\* recorded in trace.
JumpStatement(p, r) ==
    [r EXCEPT !.trace = Append(@, [op |-> "jumpStatement",
                                   before |-> p.flags \cap JumpFlags,
                                   after |-> r.flags \cap JumpFlags])]

parseSwitchCase(p, ctx) ==
    Then(CASE p.token = "CaseKeyword" ->
                Then(nextToken(p, ctx), LAMBDA q :
                Call("parseExpression", q, ctx \cup {"AllowIn"}, <<>>))
           [] p.token = "DefaultKeyword" -> Result(nextToken(p, ctx), Null)
           [] OTHER -> Result(p, Null), LAMBDA test :
    Then(expect(test, ctx, "Colon"), LAMBDA q :
    Then(parseConsequent(q, ctx, <<>>), LAMBDA r :
    Result(r, finishNode(r, getLocations(p),
                         [type |-> "SwitchCase", test |-> test.ret,
                          consequent |-> r.ret])))))

\* The loop of parseSwitchStatement over the clauses.
RECURSIVE parseSwitchCases(_, _, _, _)
parseSwitchCases(p, ctx, cases, hasDefault) ==
    IF p.token = "RightBrace" THEN Result(p, cases)
    ELSE Then(parseSwitchCase(p, ctx), LAMBDA q :
         IF q.ret.test = Null /\ hasDefault
         THEN error(q, "MultipleDefaultsInSwitch")
         ELSE parseSwitchCases(q, ctx, Append(cases, q.ret),
                               hasDefault \/ q.ret.test = Null))

parseSwitchStatement(p, ctx) ==
    Then(expect(p, ctx, "SwitchKeyword"), LAMBDA a :
    Then(expect(a, ctx, "LeftParen"), LAMBDA b :
    Then(Call("parseExpression", b, ctx, <<>>), LAMBDA discriminant :
    Then(expect(discriminant, ctx, "RightParen"), LAMBDA c :
    Then(expect(c, ctx, "LeftBrace"), LAMBDA d :
    Then(parseSwitchCases([d EXCEPT !.flags = @ \cup {"Break", "Switch"}], ctx,
                          <<>>, FALSE), LAMBDA cases :
    Then(expect([cases EXCEPT !.flags = p.flags], ctx, "RightBrace"), LAMBDA r :
    Result(JumpStatement(p, r),
           finishNode(r, getLocations(p),
                         [type |-> "SwitchStatement",
                          discriminant |-> discriminant.ret,
                          cases |-> cases.ret])))))))))

parseWhileStatement(p, ctx) ==
    Then(expect(p, ctx, "WhileKeyword"), LAMBDA a :
    Then(expect(a, ctx, "LeftParen"), LAMBDA b :
    Then(Call("parseExpression", b, ctx \cup {"AllowIn"}, <<>>), LAMBDA test :
    Then(expect(test, ctx, "RightParen"), LAMBDA c :
    Then(Call("parseStatement",
              IterationBody(IF "Break" \in c.flags THEN c
                            ELSE [c EXCEPT !.flags =
                                      @ \cup {"Continue", "Break"}]),
              ctx, <<>>),
         LAMBDA body :
    Result(JumpStatement(p, [body EXCEPT !.flags = c.flags]),
           finishNode(body, getLocations(p),
                      [type |-> "WhileStatement", test |-> test.ret,
                       body |-> body.ret])))))))

parseDoWhileStatement(p, ctx) ==
    Then(expect(p, ctx, "DoKeyword"), LAMBDA a :
    Then(Call("parseStatement",
              IterationBody(IF "Break" \in a.flags THEN a
                            ELSE [a EXCEPT !.flags =
                                      @ \cup {"Continue", "Break"}]),
              ctx, <<>>),
         LAMBDA body :
    Then(expect([body EXCEPT !.flags = a.flags], ctx, "WhileKeyword"), LAMBDA b :
    Then(expect(b, ctx, "LeftParen"), LAMBDA c :
    Then(Call("parseExpression", c, ctx \cup {"AllowIn"}, <<>>), LAMBDA test :
    Then(expect(test, ctx, "RightParen"), LAMBDA d :
    Then(parseOptional(d, ctx, "Semicolon"), LAMBDA r :
    Result(JumpStatement(p, r),
           finishNode(r, getLocations(p),
                         [type |-> "DoWhileStatement", body |-> body.ret,
                          test |-> test.ret])))))))))

parseContinueStatement(p, ctx) ==
    Then(expect(p, ctx, "ContinueKeyword"), LAMBDA a :
    Then(IF "LineTerminator" \in a.flags THEN Result(a, TRUE)
         ELSE parseOptional(a, ctx, "Semicolon"), LAMBDA b :
    IF b.ret
    THEN IF "Continue" \notin b.flags THEN error(b, "Unexpected")
         ELSE Result(b, finishNode(b, getLocations(p),
                                   [type |-> "ContinueStatement", label |-> Null]))
    ELSE
    Then(IF b.token = "Identifier"
         THEN Then(parseIdentifier(b, ctx), LAMBDA l :
              IF hasOwn(l.labelSet, l.ret.name) THEN l
              ELSE error(l, "UnknownLabel"))
         ELSE Result(b, Null), LAMBDA label :
    IF b.flags \cap {"Continue", "Switch"} = {} /\ label.ret = Null
    THEN error(label, "BadContinue")
    ELSE Then(consumeSemicolon(label, ctx), LAMBDA r :
         Result(r, finishNode(r, getLocations(p),
                              [type |-> "ContinueStatement",
                               label |-> label.ret]))))))

\* parseBreakStatement without the test of the flags after break;
parseBreakStatementAnywhere(p, ctx) ==
    Then(expect(p, ctx, "BreakKeyword"), LAMBDA a :
    Then(parseOptional(a, ctx, "Semicolon"), LAMBDA b :
    IF b.ret
    THEN Result(b, finishNode(b, getLocations(p),
                              [type |-> "BreakStatement", label |-> Null]))
    ELSE
    Then(IF "LineTerminator" \notin b.flags /\ b.token = "Identifier"
         THEN Then(parseIdentifier(b, ctx), LAMBDA l :
              IF hasOwn(l.labelSet, l.ret.name) THEN l
              ELSE error(l, "UnknownLabel"))
         ELSE Result(b, Null), LAMBDA label :
    IF b.flags \cap {"Break", "Switch"} = {} /\ label.ret = Null
    THEN error(label, "IllegalBreak")
    ELSE Then(consumeSemicolon(label, ctx), LAMBDA r :
         Result(r, finishNode(r, getLocations(p),
                              [type |-> "BreakStatement",
                               label |-> label.ret]))))))

parseBreakStatement(p, ctx) ==
    Then(expect(p, ctx, "BreakKeyword"), LAMBDA a :
    Then(parseOptional(a, ctx, "Semicolon"), LAMBDA b :
    IF b.ret
    THEN IF b.flags \cap {"Continue", "Switch"} = {} THEN error(b, "Unexpected")
         ELSE Result(b, finishNode(b, getLocations(p),
                                   [type |-> "BreakStatement", label |-> Null]))
    ELSE
    Then(IF "LineTerminator" \notin b.flags /\ b.token = "Identifier"
         THEN Then(parseIdentifier(b, ctx), LAMBDA l :
              IF hasOwn(l.labelSet, l.ret.name) THEN l
              ELSE error(l, "UnknownLabel"))
         ELSE Result(b, Null), LAMBDA label :
    IF b.flags \cap {"Break", "Switch"} = {} /\ label.ret = Null
    THEN error(label, "IllegalBreak")
    ELSE Then(consumeSemicolon(label, ctx), LAMBDA r :
         Result(r, finishNode(r, getLocations(p),
                              [type |-> "BreakStatement",
                               label |-> label.ret]))))))

parseLabelledStatement(p, ctx) ==
    Then(Call("parseExpression", p, ctx \cup {"AllowIn"}, <<>>), LAMBDA e :
    Then(parseOptional(e, ctx, "Colon"), LAMBDA c :
    IF c.ret /\ e.ret.type = "Identifier"
    THEN IF /\ "Switch" \notin c.flags /\ "ForStatement" \in ctx
            /\ c.token = "Identifier"
         THEN error(c, "InvalidLabeledForOf")
         ELSE IF hasOwn(c.labelSet, e.ret.name) THEN error(c, "Redeclaration")
         ELSE
         Then(IF c.token = "FunctionKeyword"
              THEN IF "Strict" \in ctx THEN error(c, "StrictFunction")
                   ELSE Call("parseFunctionDeclaration",
                             [c EXCEPT !.labelSet = @ \cup {e.ret.name}],
                             (ctx \ {"ForStatement"}) \cup {"AnnexB"}, <<>>)
              ELSE Call("parseStatement",
                        [c EXCEPT !.labelSet = @ \cup {e.ret.name}],
                        ctx \ {"ForStatement"}, <<>>), LAMBDA body :
         Result([body EXCEPT !.labelSet = @ \ {e.ret.name}],
                finishNode(body, getLocations(p),
                           [type |-> "LabeledStatement", label |-> e.ret,
                            body |-> body.ret])))
    ELSE Then(consumeSemicolon(c, ctx), LAMBDA q :
         Result(q, finishNode(q, getLocations(p),
                              [type |-> "ExpressionStatement",
                               expression |-> e.ret])))))

isBindingPattern(t) == t \in {"LeftBracket", "LeftBrace"}

parseVariableDeclaration(p, ctx) ==
    Then(Call("parseBindingPatternOrIdentifier", p, ctx \cup {"Binding"}, <<>>),
         LAMBDA id :
    IF /\ "RequireInitializer" \in ctx /\ id.ret.type = "Identifier"
       /\ id.token # "Assign"
    THEN error(id, "MissingInitializer")
    ELSE
    Then(CASE "Const" \in ctx ->
                IF "ForStatement" \notin ctx /\ id.token # "Assign"
                THEN error(id, "DeclarationMissingInitializer")
                ELSE parseOptional(id, ctx, "Assign")
           [] "Const" \notin ctx /\ "Let" \in ctx ->
                IF \/ "ForStatement" \notin ctx /\ p.token # "Identifier"
                   \/ id.token = "Assign"
                THEN Result(expect(id, ctx, "Assign"), TRUE)
                ELSE Result(id, FALSE)
           [] OTHER -> parseOptional(id, ctx, "Assign"), LAMBDA o :
    IF o.ret
    THEN Then(Call("parseAssignmentExpression", o, ctx, <<>>), LAMBDA init :
         Result(init, finishNode(init, getLocations(p),
                                 [type |-> "VariableDeclarator",
                                  init |-> init.ret, id |-> id.ret])))
    ELSE IF /\ ctx \cap Lexical = {} /\ "ForStatement" \notin ctx
            /\ isBindingPattern(p.token)
    THEN error(o, "DeclarationMissingInitializer")
    ELSE Result(o, finishNode(o, getLocations(p),
                              [type |-> "VariableDeclarator", init |-> Null,
                               id |-> id.ret]))))

\* The loop of parseVariableDeclarationList, after a declaration.
RECURSIVE parseVariableDeclarations(_, _, _)
parseVariableDeclarations(p, ctx, list) ==
    Then(parseOptional(p, ctx, "Comma"), LAMBDA o :
    IF ~o.ret THEN Result(o, list)
    ELSE Then(parseVariableDeclaration(o, ctx), LAMBDA d :
         parseVariableDeclarations(d, ctx, Append(list, d.ret))))

parseVariableDeclarationList(p, ctx) ==
    Then(parseVariableDeclaration(p, ctx), LAMBDA d :
    parseVariableDeclarations(d, ctx, <<d.ret>>))

parseVariableStatement(p, ctx) ==
    Then(nextToken(p, ctx), LAMBDA q :
    Then(parseVariableDeclarationList(q, ctx \ {"ForStatement"}), LAMBDA d :
    Then(consumeSemicolon(d, ctx \ {"ForStatement"}), LAMBDA r :
    Result(r, finishNode(r, getLocations(p),
                         [type |-> "VariableDeclaration",
                          declarations |-> d.ret,
                          kind |-> tokenDesc[p.token]])))))

parseThrowStatement(p, ctx) ==
    Then(expect(p, ctx, "ThrowKeyword"), LAMBDA q :
    IF "LineTerminator" \in q.flags THEN error(q, "NewlineAfterThrow")
    ELSE Then(Call("parseExpression", q, ctx \cup {"AllowIn"}, <<>>), LAMBDA e :
         Then(consumeSemicolon(e, ctx), LAMBDA s :
         Result(s, finishNode(s, getLocations(p),
                              [type |-> "ThrowStatement", argument |-> e.ret])))))

\* The entry is recorded in trace, with labelSet as the statement finds it.
parseStatement(p0, ctx) ==
    Observe([p0 EXCEPT !.trace = Append(@, [op |-> "parseStatement",
                                             token |-> p0.token,
                                             start |-> p0.startPos,
                                             labelSet |-> p0.labelSet])],
            LAMBDA p :
    CASE p.token = "Semicolon" -> parseEmptyStatement(p, ctx)
      [] p.token = "VarKeyword" -> parseVariableStatement(p, ctx)
      [] p.token = "LeftBrace" -> parseBlockStatement(p, ctx)
      [] p.token = "ContinueKeyword" -> parseContinueStatement(p, ctx)
      [] p.token = "BreakKeyword" -> parseBreakStatement(p, ctx)
      [] p.token = "DoKeyword" -> parseDoWhileStatement(p, ctx)
      [] p.token = "WhileKeyword" -> parseWhileStatement(p, ctx)
      [] p.token = "SwitchKeyword" ->
           parseSwitchStatement(p, ctx \cup {"Statement"})
      [] p.token = "ThrowKeyword" -> parseThrowStatement(p, ctx)
      [] p.token \in {"ClassKeyword", "FunctionKeyword"} ->
           error(p, "UnexpectedToken")
      [] p.token = "AsyncKeyword" ->
           Then(nextTokenIsFunctionKeyword(p, ctx), LAMBDA f :
           IF ~f.ret THEN parseLabelledStatement(f, ctx \cup {"AllowIn"})
           ELSE IF "Break" \in f.flags THEN error(f, "Unexpected")
           ELSE error(f, "NotModelled"))
      [] OTHER -> parseLabelledStatement(p, ctx \cup {"AllowIn"}))

parseStatementListItem(p, ctx) ==
    CASE p.token = "ImportKeyword" -> error(p, "NotModelled")
      [] p.token = "FunctionKeyword" -> parseFunctionDeclaration(p, ctx)
      [] p.token = "ClassKeyword" -> parseClassDeclaration(p, ctx)
      [] p.token = "ConstKeyword" ->
           parseVariableStatement(p, ctx \cup {"Const"})
      [] p.token = "LetKeyword" ->
           Then(isLexical(p, ctx), LAMBDA l :
           IF l.ret THEN parseVariableStatement(p, ctx \cup {"Let"})
           ELSE Call("parseStatement", p, ctx \cup {"AllowIn"}, <<>>))
      [] OTHER -> parseStatement(p, ctx \cup {"AllowIn"})

Call(fn, p, ctx, a) ==
    CASE fn = "scanToken" -> scanToken(p, ctx)
      [] fn = "parseExpression" -> parseExpression(p, ctx)
      [] fn = "parseAssignmentExpression" -> parseAssignmentExpression(p, ctx)
      [] fn = "parseBinaryExpression" ->
           IF "expression" \in DOMAIN a
           THEN parseBinaryExpression(p, ctx, a.precedence, a.pos, a.expression)
           ELSE Then(parseUnaryExpression(p, ctx), LAMBDA q :
                Call("parseBinaryExpression", q, ctx,
                     [precedence |-> a.precedence, pos |-> a.pos,
                      expression |-> q.ret]))
      [] fn = "buildUnaryExpression" -> buildUnaryExpression(p, ctx)
      [] fn = "parseUpdateExpression" -> parseUpdateExpression(p, ctx, a.pos)
      [] fn = "parseLeftHandSideExpression" ->
           parseLeftHandSideExpression(p, ctx, a.pos)
      [] fn = "parseCallExpression" -> parseCallExpression(p, ctx, a.pos, a.expr)
      [] fn = "parseMemberExpression" ->
           IF "expr" \in DOMAIN a
           THEN parseMemberExpression(p, ctx, a.pos, a.expr)
           ELSE Then(parsePrimaryExpression(p, ctx, a.pos), LAMBDA q :
                Call("parseMemberExpression", q, ctx,
                     [pos |-> a.pos, expr |-> q.ret]))
      [] fn = "parseParenthesizedExpression" ->
           parseParenthesizedExpression(p, ctx, a.pos)
      [] fn = "parseTemplate" -> parseTemplate(p, ctx, a.pos)
      [] fn = "parseBindingPatternOrIdentifier" ->
           parseBindingPatternOrIdentifier(p, ctx)
      [] fn = "parseRestElement" -> parseRestElement(p, ctx)
      [] fn = "parseFunctionExpression" -> parseFunctionExpression(p, ctx)
      [] fn = "parseFunctionDeclaration" -> parseFunctionDeclaration(p, ctx)
      [] fn = "parseClassExpression" -> parseClassExpression(p, ctx)
      [] fn = "parseDoExpression" -> parseDoExpression(p, ctx)
      [] fn = "parseArrowExpression" ->
           parseArrowExpression(p, ctx, a.pos, a.params)
      [] fn = "parseStatement" -> parseStatement(p, ctx)
      [] fn = "parseStatementListItem" -> parseStatementListItem(p, ctx)

(***************************************************************************)
(* The state of the running parse, and the sources it is started on.       *)
(***************************************************************************)
\* The bitwise operators of the code on non-negative numbers.
RECURSIVE BitOr(_, _)
BitOr(a, b) ==
    IF a = 0 THEN b
    ELSE IF b = 0 THEN a
    ELSE 2 * BitOr(a \div 2, b \div 2)
         + (IF a % 2 = 1 \/ b % 2 = 1 THEN 1 ELSE 0)

RECURSIVE BitAnd(_, _)
BitAnd(a, b) ==
    IF a = 0 \/ b = 0 THEN 0
    ELSE 2 * BitAnd(a \div 2, b \div 2)
         + (IF a % 2 = 1 /\ b % 2 = 1 THEN 1 ELSE 0)

ShiftLeft(a, n) == (a * 2^n) % 2^32

\* The source is a sequence of code units here. At the end of the source hi
\* is NaN, which passes both comparisons and is returned by the test of the
\* index.
nextUnicodeChar(p) ==
    LET q == advance(p)
        hi == nextChar(q)
        lo == nextChar(q)
    IN  IF ~hasNext(q) THEN [q EXCEPT !.ret = hi]
        ELSE IF hi < 55296 \/ hi > 56319 THEN [q EXCEPT !.ret = hi]
        ELSE IF q.index = Len(q.source) THEN [q EXCEPT !.ret = hi]
        ELSE IF lo < 56320 \/ lo > 57343 THEN [q EXCEPT !.ret = hi]
        ELSE [q EXCEPT !.ret = BitOr(BitOr(ShiftLeft(BitAnd(hi, 1023), 10),
                                           BitAnd(lo, 1023)), 65536)]

Self ==
    [source |-> source, index |-> index, line |-> line, column |-> column,
     flags |-> flags, token |-> token, tokenValue |-> tokenValue,
     tokenRaw |-> tokenRaw, tokenRegExp |-> tokenRegExp, startPos |-> startPos,
     startColumn |-> startColumn, startLine |-> startLine, endPos |-> endPos,
     endColumn |-> endColumn, endLine |-> endLine, comments |-> comments,
     labelSet |-> labelSet, functionScope |-> functionScope,
     blockScope |-> blockScope, parentScope |-> parentScope, scopes |-> scopes,
     trace |-> trace, err |-> err, ret |-> returned]

Assign(p) ==
    /\ source' = p.source /\ index' = p.index /\ line' = p.line
    /\ column' = p.column /\ flags' = p.flags /\ token' = p.token
    /\ tokenValue' = p.tokenValue /\ tokenRaw' = p.tokenRaw
    /\ tokenRegExp' = p.tokenRegExp /\ startPos' = p.startPos
    /\ startColumn' = p.startColumn /\ startLine' = p.startLine
    /\ endPos' = p.endPos /\ endColumn' = p.endColumn /\ endLine' = p.endLine
    /\ comments' = p.comments /\ labelSet' = p.labelSet
    /\ functionScope' = p.functionScope /\ blockScope' = p.blockScope
    /\ parentScope' = p.parentScope /\ scopes' = p.scopes /\ trace' = p.trace
    /\ err' = p.err /\ returned' = p.ret

RECURSIVE Flatten(_)
Flatten(w) == IF w = <<>> THEN <<>> ELSE Head(w) \o Flatten(Tail(w))

Texts(chunks, n) == {Flatten(w) : w \in Strings(chunks, n)}

\* The constructor, then parseScript or parseModule choosing the context.
Construct(sources, options, contexts) ==
    /\ source \in sources /\ flags \in options
    /\ index = 0 /\ line = 1 /\ column = 0 /\ token = "EndOfSource"
    /\ tokenValue = [undefined |-> TRUE] /\ tokenRaw = <<>> /\ tokenRegExp = <<>>
    /\ startPos = 0 /\ startColumn = 0 /\ startLine = 0
    /\ endPos = 0 /\ endColumn = 0 /\ endLine = 0
    /\ comments = <<>> /\ labelSet = {} /\ functionScope = Undefined
    /\ blockScope = Undefined /\ parentScope = Undefined /\ scopes = <<>>
    /\ trace = <<>> /\ err = "none"
    /\ context \in contexts
    /\ pc = "start" /\ saved = <<>> /\ returned = FALSE /\ ast = <<>>

(***************************************************************************)
(* The scanner as a machine: one token per step.                           *)
(***************************************************************************)
Finish(p, done) ==
    Assign(p) /\ pc' = IF p.err = "none" THEN done ELSE "error"

NextToken ==
    /\ pc \in {"start", "scanned", "probed"}
    /\ pc = "start" \/ token # "EndOfSource"
    /\ \E p \in {nextToken(Self, context)} : Finish(p, "scanned")
    /\ UNCHANGED <<context, saved, ast>>

ScanChunks ==
    {<<"LF">>, <<"CR">>, <<"LS">>, <<"PS">>, <<"SP">>, <<"a">>, <<"/", "/">>,
     <<"/", "*">>, <<"*", "/">>, <<"-", "-", ">">>, <<"#", "!">>}

InitScan == Construct(Texts(ScanChunks, MaxScanLen), {{}}, {{}, {"Strict", "Module"}})

NextScan == NextToken

SpecScan == InitScan /\ [][NextScan]_vars

\* What the source text says about the position after its first n units.
LineOf(n) ==
    1 + Cardinality({i \in 1..n : /\ source[i] \in LineTerminators
                                  /\ ~(source[i] = "LF" /\ i > 1 /\ source[i - 1] = "CR")})

ColumnOf(n) ==
    LET ends == {i \in 1..n : source[i] \in LineTerminators}
    IN  n - (IF ends = {} THEN 0 ELSE CHOOSE i \in ends : \A j \in ends : j <= i)

\* C3: after the scanner has consumed whitespace, line terminators and
\* comments, line is 1 plus the number of line terminators consumed (CR LF
\* counting once, two LF counting twice) and column is the number of code
\* units consumed since the last of them.
C3_LineColumn ==
    pc = "scanned" => line = LineOf(index) /\ column = ColumnOf(index)

(***************************************************************************)
(* parseScript as a machine: parseStatementList scans the first token,     *)
(* every turn of its two loops parses one statement (the first loop, the   *)
(* directive prologue, is pc = "directives"), and at the end of the source *)
(* parseScript returns the Program.                                        *)
(***************************************************************************)
ParseStatementList ==
    /\ pc = "start"
    /\ \E p \in {nextToken(Self, context \cup {"AllowIn"})} :
          Finish(p, "directives")
    /\ UNCHANGED <<context, saved, ast>>

ParseStatementListItem ==
    /\ pc \in {"directives", "body"} /\ token # "EndOfSource"
    /\ \E prologue \in {pc = "directives" /\ token = "StringLiteral"} :
       \E p \in {Call("parseStatementListItem", Self,
                     context \cup {"AllowIn"}, <<>>)} :
       \E directive \in {p.err = "none" /\ prologue /\ isDirective(p.ret)} :
       \E strict \in {directive /\ p.ret.expression.value = UseStrict} :
          /\ Finish(p, IF directive /\ ~strict THEN "directives" ELSE "body")
          /\ ast' = IF p.err = "none" THEN Append(ast, p.ret) ELSE ast
          /\ context' = IF strict THEN context \cup {"Strict"} ELSE context
    /\ UNCHANGED saved

ParseScript ==
    /\ pc \in {"directives", "body"} /\ token = "EndOfSource"
    /\ pc' = "done"
    /\ returned' = (IF "OptionsRanges" \in flags
                    THEN [start |-> 0, end |-> Len(source)] ELSE <<>>)
                   @@ [type |-> "Program", body |-> ast, sourceType |-> "script"]
    /\ UNCHANGED <<source, index, line, column, flags, token, tokenValue,
                   tokenRaw, tokenRegExp, startPos, startColumn, startLine,
                   endPos, endColumn, endLine, comments, labelSet, functionScope,
                   blockScope, parentScope, scopes, trace, err, context, saved,
                   ast>>

NextParse ==
    \/ ParseStatementList
    \/ ParseStatementListItem
    \/ ParseScript

(***************************************************************************)
(* The tree parseScript returns (ESTree).                                  *)
(***************************************************************************)
\* The fields of a node that hold nodes, null among them.
Fields(n) ==
    CASE n.type = "Program" -> n.body
      [] n.type = "ExpressionStatement" -> <<n.expression>>
      [] n.type = "SequenceExpression" -> n.expressions
      [] n.type \in {"AssignmentExpression", "AssignmentPattern",
                     "BinaryExpression"} -> <<n.left, n.right>>
      [] n.type = "ConditionalExpression" -> <<n.test, n.consequent, n.alternate>>
      [] n.type \in {"UnaryExpression", "UpdateExpression", "ThrowStatement"} ->
           <<n.argument>>
      [] n.type = "ThrowExpression" -> <<n.expressions>>
      [] n.type = "CallExpression" -> <<n.callee>> \o n.arguments
      [] n.type = "MemberExpression" -> <<n.object, n.property>>
      [] n.type = "TaggedTemplateExpression" -> <<n.tag, n.quasi>>
      [] n.type = "TemplateLiteral" -> n.quasis \o n.expressions
      [] n.type \in {"BlockStatement", "ClassBody"} -> n.body
      [] n.type = "DoExpression" -> <<n.body>>
      [] n.type = "LabeledStatement" -> <<n.label, n.body>>
      [] n.type \in {"BreakStatement", "ContinueStatement"} -> <<n.label>>
      [] n.type = "WhileStatement" -> <<n.test, n.body>>
      [] n.type = "DoWhileStatement" -> <<n.body, n.test>>
      [] n.type = "SwitchStatement" -> <<n.discriminant>> \o n.cases
      [] n.type = "SwitchCase" -> <<n.test>> \o n.consequent
      [] n.type \in {"FunctionDeclaration", "FunctionExpression"} ->
           <<n.id>> \o n.params \o <<n.body>>
      [] n.type \in {"ClassDeclaration", "ClassExpression"} ->
           <<n.id, n.superClass, n.body>>
      [] n.type = "MethodDefinition" -> <<n.key, n.value>>
      [] n.type = "ArrayPattern" -> n.elements
      [] n.type = "ArrowFunctionExpression" -> n.params \o <<n.body>>
      [] n.type = "VariableDeclaration" -> n.declarations
      [] n.type = "VariableDeclarator" -> <<n.id, n.init>>
      [] OTHER -> <<>>

Children(n) == SelectSeq(Fields(n), LAMBDA c : c # Null)

RECURSIVE Descendants(_)
Descendants(n) ==
    {n} \cup UNION {Descendants(Children(n)[i]) : i \in DOMAIN Children(n)}

(***************************************************************************)
(* Division and regular expressions.                                       *)
(***************************************************************************)
MaxDivideLen == 4

DivideChunks ==
    {<<"x">>, <<"1">>, <<"/">>, <<"SP", "/", "SP">>, <<"-">>,
     <<"/", "a", "/", "i">>, <<"(", "x", ")">>, <<"x", "[", "1", "]">>, <<"=">>}

InitDivide ==
    Construct(Texts(DivideChunks, MaxDivideLen), {{"OptionsRanges"}}, {{}})

SpecDivide == InitDivide /\ [][NextParse]_vars

\* The code unit at offset i ends an operand: the last unit of an
\* identifier or a number, or a closing parenthesis or bracket.
OperandEnd(i) ==
    charCodeAt(source, i) \in IdentifierStart \cup Digits \cup {")", "]"}

\* The last code unit before offset i that is not white space ends an operand.
AfterOperand(i) ==
    \E j \in 0..(i - 1) :
        /\ OperandEnd(j)
        /\ \A k \in (j + 1)..(i - 1) : charCodeAt(source, k) \in WhiteSpace

RegExpLiterals == {n \in Descendants(returned) : "regex" \in DOMAIN n}

InRegExp(i) == \E n \in RegExpLiterals : n.start <= i /\ i < n.end

InComment(i) ==
    \E j \in 0..i : /\ charCodeAt(source, j) = "/"
                    /\ charCodeAt(source, j + 1) = "/"
                    /\ ~InRegExp(j)

\* A binary or assignment node whose operator is the slash at offset i.
DividesAt(n, i) ==
    /\ n.type \in {"BinaryExpression", "AssignmentExpression"}
    /\ n.operator = (IF charCodeAt(source, i + 1) = "=" THEN "/=" ELSE "/")
    /\ n.left.end <= i /\ i < n.right.start

Operands == {<<"x">>, <<"1">>, <<"(", "x", ")">>, <<"x", "[", "1", "]">>}

Division(A, op, B) ==
    /\ source = A \o op \o B
    /\ Len(returned.body) = 1
    /\ returned.body[1].expression.type = "BinaryExpression"
    /\ returned.body[1].expression.operator = "/"
    /\ returned.body[1].expression.left.end <= Len(A)
    /\ returned.body[1].expression.right.start >= Len(A) + Len(op)

\* C1: a slash becomes a regular expression literal only where a primary
\* expression starts, and after an operand it is the operator of a division
\* (or of a /= assignment); x / 1 and 1 / -1, for all operands, are parsed
\* as divisions and /a/i as the literal of pattern a and flags i.
C1_DivideOrRegExp ==
    /\ pc = "done" =>
          /\ \A n \in RegExpLiterals :
                /\ ~AfterOperand(n.start)
                /\ <<"/">> \o n.regex.pattern \o <<"/">> \o n.regex.flags
                      = slice(source, n.start, n.end)
                /\ \A k \in DOMAIN n.regex.flags : n.regex.flags[k] # "/"
          /\ \A i \in 0..(Len(source) - 1) :
                /\ charCodeAt(source, i) = "/" /\ AfterOperand(i)
                /\ ~InRegExp(i) /\ ~InComment(i)
                => \E n \in Descendants(returned) : DividesAt(n, i)
    /\ \A A \in Operands, B \in Operands \cup {<<"-">> \o b : b \in Operands} :
       \A op \in {<<"/">>, <<"SP", "/", "SP">>} :
          source = A \o op \o B =>
              /\ pc # "error"
              /\ pc = "done" => Division(A, op, B)
    /\ source = <<"/", "a", "/", "i">> =>
          /\ pc # "error"
          /\ pc = "done" =>
                /\ Len(returned.body) = 1
                /\ returned.body[1].expression.type = "Literal"
                /\ returned.body[1].expression.regex
                      = [pattern |-> <<"a">>, flags |-> <<"i">>]

\* 1 / /a/i has been parsed: a division whose right operand is a regular
\* expression literal.
C1_Witness ==
    /\ pc = "done"
    /\ source = <<"1", "SP", "/", "SP", "/", "a", "/", "i">>
    /\ returned.body[1].expression.type = "BinaryExpression"
    /\ returned.body[1].expression.right \in RegExpLiterals

(***************************************************************************)
(* Numeric literals.                                                       *)
(***************************************************************************)
MaxNumberLen == 4

NumberChunks ==
    {<<"1">>, <<".">>, <<"e">>, <<"n">>, <<"-">>, <<";">>, <<"SP">>}

InitNumber ==
    Construct(Texts(NumberChunks, MaxNumberLen),
              {{"OptionsRaw", "OptionsRanges"},
               {"OptionsRaw", "OptionsRanges", "OptionsNext"}}, {{}})

SpecNumber == InitNumber /\ [][NextParse]_vars

\* C4: with raw and ranges set, the raw of every literal node of a parsed
\* source is the source text from the node's start to its end.
C4_RawIsSourceText ==
    pc = "done" =>
        \A n \in Descendants(returned) :
            n.type \in {"Literal", "BigIntLiteral"} =>
                n.raw = slice(source, n.start, n.end)

(***************************************************************************)
(* Template literals.                                                      *)
(***************************************************************************)
MaxTemplateLen == 6

TemplateChunks == {<<"BT">>, <<"$", "{">>, <<"}">>, <<"SP">>, <<"x">>}

InitTemplate ==
    Construct(Texts(TemplateChunks, MaxTemplateLen), {{"OptionsRanges"}}, {{}})

SpecTemplate == InitTemplate /\ [][NextParse]_vars

\* C2: with ranges set, every node of a parsed source starts no later than
\* it ends, and lies inside the range of its parent.
C2_RangesNested ==
    pc = "done" =>
        \A n \in Descendants(returned) :
            /\ n.start <= n.end
            /\ \A i \in DOMAIN Children(n) :
                  /\ n.start <= Children(n)[i].start
                  /\ Children(n)[i].end <= n.end

(***************************************************************************)
(* The probes as steps of the machine, taken where the parser calls them.  *)
(***************************************************************************)
IsLexical ==
    /\ pc = "scanned" /\ token = "LetKeyword"
    /\ \E p \in {isLexical(Self, context)} : Finish(p, "probed")
    /\ saved' = [p |-> Self, ast |-> ast]
    /\ UNCHANGED <<context, ast>>

NextTokenIsFunctionKeyword ==
    /\ pc = "scanned" /\ token = "AsyncKeyword"
    /\ \E p \in {nextTokenIsFunctionKeyword(Self, context)} : Finish(p, "probed")
    /\ saved' = [p |-> Self, ast |-> ast]
    /\ UNCHANGED <<context, ast>>

NextTokenIsLeftParen ==
    /\ pc = "scanned" /\ token = "ImportKeyword" /\ "OptionsNext" \in flags
    /\ \E p \in {nextTokenIsLeftParen(Self, context)} : Finish(p, "probed")
    /\ saved' = [p |-> Self, ast |-> ast]
    /\ UNCHANGED <<context, ast>>

ProbeChunks ==
    {<<"l", "e", "t">>, <<"a", "s", "y", "n", "c">>,
     <<"i", "m", "p", "o", "r", "t">>,
     <<"f", "u", "n", "c", "t", "i", "o", "n">>,
     <<"SP">>, <<"LF">>, <<"x">>, <<"(">>, <<"1">>, <<"}">>}

InitProbe ==
    Construct(Texts(ProbeChunks, MaxProbeLen), {{"OptionsNext", "OptionsRaw"}}, {{}})

NextProbe ==
    \/ NextToken
    \/ IsLexical
    \/ NextTokenIsFunctionKeyword
    \/ NextTokenIsLeftParen

SpecProbe == InitProbe /\ [][NextProbe]_vars

\* C6: when nextTokenIsLeftParen, isLexical or nextTokenIsFunctionKeyword
\* has returned, index, line, column, token, tokenValue, tokenRaw,
\* tokenRegExp, the start and end positions, lines and columns and flags
\* are what they were before the probe, and no node has been created.
C6_ProbeRestores ==
    pc = "probed" =>
        /\ index = saved.p.index /\ line = saved.p.line
        /\ column = saved.p.column /\ token = saved.p.token
        /\ tokenValue = saved.p.tokenValue /\ tokenRaw = saved.p.tokenRaw
        /\ tokenRegExp = saved.p.tokenRegExp
        /\ startPos = saved.p.startPos /\ endPos = saved.p.endPos
        /\ startLine = saved.p.startLine /\ endLine = saved.p.endLine
        /\ startColumn = saved.p.startColumn /\ endColumn = saved.p.endColumn
        /\ flags = saved.p.flags /\ ast = saved.ast

\* A probe has looked past a line terminator at a number and come back.
C6_Witness ==
    /\ pc = "probed" /\ token = "LetKeyword" /\ ~returned
    /\ source = <<"l", "e", "t", "LF", "1">>

(***************************************************************************)
(* Automatic semicolon insertion.                                          *)
(***************************************************************************)
MaxSemicolonLen == 5

SemicolonChunks ==
    {<<"x">>, <<";">>, <<"LF">>, <<"{">>, <<"}">>, <<"=", "d", "o", "{", "}">>}

InitSemicolon ==
    Construct(Texts(SemicolonChunks, MaxSemicolonLen), {{"OptionsV8"}}, {{}})

SpecSemicolon == InitSemicolon /\ [][NextParse]_vars

\* The calls of consumeSemicolon made so far.
Consumed == {i \in DOMAIN trace : trace[i].op = "consumeSemicolon"}

\* C5: consumeSemicolon succeeds exactly when the current token is a
\* semicolon, a closing brace or the end of the source, or a line terminator
\* lies between the previous token and the current one; it consumes a token
\* only when the current token is a semicolon.
C5_ConsumeSemicolon ==
    \A i \in Consumed :
        /\ ~trace[i].threw <=>
              \/ trace[i].token \in {"Semicolon", "RightBrace", "EndOfSource"}
              \/ \E k \in DOMAIN trace[i].before :
                    trace[i].before[k] \in LineTerminators
        /\ trace[i].consumed => trace[i].token = "Semicolon"

(***************************************************************************)
(* break and continue.                                                     *)
(***************************************************************************)
MaxJumpLen == 4

JumpChunks ==
    {<<"w", "h", "i", "l", "e", "(", "x", ")">>,
     <<"d", "o", "SP">>,
     <<"s", "w", "i", "t", "c", "h", "(", "x", ")", "{", "c", "a", "s",
       "e", "SP", "1", ":">>,
     <<"{">>,
     <<"}">>,
     <<"b", "r", "e", "a", "k", ";">>,
     <<"c", "o", "n", "t", "i", "n", "u", "e", ";">>,
     <<"f", "u", "n", "c", "t", "i", "o", "n", "SP", "f", "(", ")", "{",
       "b", "r", "e", "a", "k", ";", "}">>,
     <<"f", "u", "n", "c", "t", "i", "o", "n", "SP", "f", "(", ")", "{",
       "c", "o", "n", "t", "i", "n", "u", "e", ";", "}">>,
     <<"f", "u", "n", "c", "t", "i", "o", "n", "SP", "f", "(", ")", "{",
       "w", "h", "i", "l", "e", "(", "x", ")", "b", "r", "e", "a",
       "k", ";", "}">>}

InitJump == Construct(Texts(JumpChunks, MaxJumpLen), {{}}, {{}})

SpecJump == InitJump /\ [][NextParse]_vars

\* Every unlabeled break of the tree n has an iteration or switch statement
\* around it, and every unlabeled continue an iteration statement; inLoop
\* and inSwitch say what is around n.
RECURSIVE JumpsOk(_, _, _)
JumpsOk(n, inLoop, inSwitch) ==
    CASE n.type = "BreakStatement" -> n.label # Null \/ inLoop \/ inSwitch
      [] n.type = "ContinueStatement" -> n.label # Null \/ inLoop
      [] n.type \in {"WhileStatement", "DoWhileStatement"} ->
           \A i \in DOMAIN Children(n) : JumpsOk(Children(n)[i], TRUE, inSwitch)
      [] n.type = "SwitchStatement" ->
           \A i \in DOMAIN Children(n) : JumpsOk(Children(n)[i], inLoop, TRUE)
      [] OTHER ->
           \A i \in DOMAIN Children(n) : JumpsOk(Children(n)[i], inLoop, inSwitch)

\* C7: a source with an unlabeled break that no iteration or switch
\* statement encloses, or an unlabeled continue that no iteration statement
\* encloses, is not parsed: it ends in an error.
C7_JumpsEnclosed ==
    pc = "done" => JumpsOk(returned, FALSE, FALSE)

\* A continue in a switch in a loop has been parsed.
C7_Witness ==
    /\ pc = "done"
    /\ source = <<"w", "h", "i", "l", "e", "(", "x", ")">>
                \o <<"s", "w", "i", "t", "c", "h", "(", "x", ")", "{",
                      "c", "a", "s", "e", "SP", "1", ":">>
                \o <<"c", "o", "n", "t", "i", "n", "u", "e", ";", "}">>
    /\ \E n \in Descendants(returned) : n.type = "ContinueStatement"

(***************************************************************************)
(* Labels.                                                                 *)
(***************************************************************************)
MaxLabelLen == 4

LabelChunks ==
    {<<"a", ":">>,
     <<"b", ":">>,
     <<";">>,
     <<"w", "h", "i", "l", "e", "(", "x", ")">>,
     <<"b", "r", "e", "a", "k", "SP", "a", ";">>,
     <<"c", "o", "n", "t", "i", "n", "u", "e", "SP", "a", ";">>,
     <<"f", "u", "n", "c", "t", "i", "o", "n", "SP", "f", "(", ")", "{",
       "a", ":", ";", "}">>,
     <<"f", "u", "n", "c", "t", "i", "o", "n", "SP", "f", "(", ")", "{",
       "b", "r", "e", "a", "k", "SP", "a", ";", "}">>,
     <<"{", "f", "u", "n", "c", "t", "i", "o", "n", "SP", "f", "(", ")",
       "{", "b", ":", ";", "}">>,
     <<"}">>}

InitLabel == Construct(Texts(LabelChunks, MaxLabelLen), {{"OptionsRanges"}}, {{}})

SpecLabel == InitLabel /\ [][NextParse]_vars

\* The node n lies around the position pos of the source.
Around(n, pos) == n.start <= pos /\ pos < n.end

\* The labels of the labeled statements of the returned tree whose body
\* lies around pos with no function body in between.
LabelsAt(pos) ==
    {l.label.name : l \in
        {l \in Descendants(returned) :
            /\ l.type = "LabeledStatement"
            /\ Around(l.body, pos)
            /\ ~\E f \in Descendants(l.body) :
                  /\ f.type \in {"FunctionDeclaration", "FunctionExpression"}
                  /\ Around(f.body, pos)}}

\* A label reused by a later sibling statement, and a label of an outer
\* function reused inside a nested function body.
LabelsReused ==
    {<<"a", ":", ";", "a", ":", ";">>,
     <<"a", ":", "f", "u", "n", "c", "t", "i", "o", "n", "SP", "f", "(",
       ")", "{", "a", ":", ";", "}">>}

\* C8: in a parse that succeeds, labelSet at the entry of every statement
\* holds exactly the labels of the labeled statements around it inside the
\* innermost function body, and is empty at the end; no labeled statement
\* lies inside a statement with the same label of the same function body;
\* the label of every break and continue is one of the labels around it in
\* the same function body; a label reused by a later sibling, or inside a
\* nested function body, is accepted.
C8_LabelSet ==
    /\ pc = "done" =>
          /\ labelSet = {}
          /\ \A i \in DOMAIN trace :
                trace[i].op = "parseStatement" =>
                   trace[i].labelSet = LabelsAt(trace[i].start)
          /\ \A n \in Descendants(returned) :
                /\ n.type = "LabeledStatement" =>
                      n.label.name \notin LabelsAt(n.start)
                /\ n.type \in {"BreakStatement", "ContinueStatement"}
                   /\ n.label # Null => n.label.name \in LabelsAt(n.start)
    /\ source \in LabelsReused => pc # "error"

\* A label of an outer function has been used again inside a nested
\* function body, and the parse has succeeded.
C8_Witness ==
    /\ pc = "done"
    /\ \E l \in Descendants(returned) :
          /\ l.type = "LabeledStatement"
          /\ \E m \in Descendants(l.body) :
                m.type = "LabeledStatement" /\ m.label.name = l.label.name

(***************************************************************************)
(* Parameters of a strict function.                                        *)
(***************************************************************************)
MaxParamLen == 3

\* The opening of a function declaration and of a function expression.
ParamHeads ==
    {<<"f", "u", "n", "c", "t", "i", "o", "n", "SP", "f", "(">>,
     <<"x", "=", "f", "u", "n", "c", "t", "i", "o", "n", "(">>}

\* What a parameter binds, and the default value it may have.
ParamChunks ==
    {<<"a">>, <<"e", "v", "a", "l">>,
     <<"a", "r", "g", "u", "m", "e", "n", "t", "s">>,
     <<"p", "a", "c", "k", "a", "g", "e">>, <<"[", "a", "]">>}

ParamDefaults == {<<>>, <<"=", "1">>}

\* The lists of at most n parameters.
RECURSIVE ParamLists(_)
ParamLists(n) ==
    IF n = 0 THEN {<<>>}
    ELSE ParamLists(n - 1)
         \cup {l \o (IF l = <<>> THEN <<>> ELSE <<",">>) \o c \o d :
                  l \in ParamLists(n - 1), c \in ParamChunks, d \in ParamDefaults}

\* The body, with the use strict directive and without.
ParamTails ==
    {<<")", "{", "\"", "u", "s", "e", "SP", "s", "t", "r", "i", "c", "t",
       "\"", "}">>,
     <<")", "{", "}">>}

InitStrictParams ==
    Construct({h \o m \o t : h \in ParamHeads, m \in ParamLists(MaxParamLen),
                              t \in ParamTails}, {{}}, {{}})

SpecStrictParams == InitStrictParams /\ [][NextParse]_vars

\* The function nodes of the returned tree whose body starts with the
\* use strict directive.
StrictFunctions ==
    {f \in Descendants(returned) :
        /\ f.type \in {"FunctionDeclaration", "FunctionExpression"}
        /\ Len(f.body.body) > 0
        /\ isDirective(f.body.body[1])
        /\ f.body.body[1].expression.value = UseStrict}

\* The parameter names a strict function may not have: eval, arguments and
\* the future reserved words.
StrictParamNames ==
    {[string |-> <<"e", "v", "a", "l">>],
     [string |-> <<"a", "r", "g", "u", "m", "e", "n", "t", "s">>],
     [string |-> <<"p", "a", "c", "k", "a", "g", "e">>]}

\* C9: a source with a function whose body starts with the use strict
\* directive is not parsed when a parameter of that function is named eval,
\* arguments or a future reserved word, or is a destructuring pattern, or
\* has a default value.
C9_StrictParams ==
    pc = "done" =>
       \A f \in StrictFunctions : \A i \in DOMAIN f.params :
          /\ f.params[i].type = "Identifier"
          /\ f.params[i].name \notin StrictParamNames

(***************************************************************************)
(* Class bodies.                                                           *)
(***************************************************************************)
MaxClassLen == 4

ClassChunks ==
    {<<"c", "l", "a", "s", "s", "SP", "a", "{">>,
     <<"x", "=", "c", "l", "a", "s", "s", "{">>,
     <<"[", "e", "v", "a", "l", "=", "1", "]">>, <<"m">>,
     <<"(", ")", "{", "}">>,
     <<"(", ")", "{", "e", "v", "a", "l", "=", "1", "}">>,
     <<"(", "e", "v", "a", "l", ")", "{", "}">>, <<"}">>}

InitClass == Construct(Texts(ClassChunks, MaxClassLen), {{}}, {{}, {"Strict"}})

SpecClass == InitClass /\ [][NextParse]_vars

\* The nodes inside the class bodies of the returned tree.
InClassBody ==
    UNION {Descendants(c.body) :
              c \in {c \in Descendants(returned) :
                        c.type \in {"ClassDeclaration", "ClassExpression"}}}

\* The node n is the identifier eval or arguments.
IsEvalOrArguments(n) ==
    n.type = "Identifier" /\ isEvalOrArguments(n.name)

\* C10: every part of a class body is parsed as strict code: no source is
\* parsed in which a method key, a parameter list or a method body of a
\* class declaration or class expression assigns to eval or arguments or
\* names a parameter eval or arguments, which strict code may not do.
C10_ClassBodyStrict ==
    pc = "done" =>
       \A n \in InClassBody :
          /\ n.type = "AssignmentExpression" => ~IsEvalOrArguments(n.left)
          /\ n.type = "FunctionExpression" =>
                \A i \in DOMAIN n.params : ~IsEvalOrArguments(n.params[i])

(***************************************************************************)
(* Lexical declarations.                                                   *)
(***************************************************************************)
MaxScopeLen == 4

ScopeChunks ==
    {<<"v", "a", "r", "SP", "a", ";">>, <<"v", "a", "r", "SP", "b", ";">>,
     <<"l", "e", "t", "SP", "a", ";">>, <<"l", "e", "t", "SP", "b", ";">>,
     <<"l", "e", "t", "SP", "u", "n", "d", "e", "f", "i", "n", "e", "d", ";">>,
     <<"{">>, <<"}">>,
     <<"f", "u", "n", "c", "t", "i", "o", "n", "SP", "f", "(", ")", "{">>}

InitScope == Construct(Texts(ScopeChunks, MaxScopeLen), {{"OptionsRanges"}}, {{}})

SpecScope == InitScope /\ [][NextParse]_vars

\* The identifiers the declarations of the given kinds declare in the
\* returned tree.
Declared(kinds) ==
    UNION {{n.declarations[i].id : i \in DOMAIN n.declarations} :
              n \in {n \in Descendants(returned) :
                        n.type = "VariableDeclaration" /\ n.kind \in kinds}}

\* The blocks, and the function bodies, of the returned tree around n.
BlocksAround(n) ==
    {b \in Descendants(returned) :
        /\ b.type \in {"Program", "BlockStatement"}
        /\ b.start <= n.start /\ n.end <= b.end}

FunctionsAround(n) ==
    {f \in Descendants(returned) :
        /\ f.type \in {"FunctionDeclaration", "FunctionExpression"}
        /\ f.body.start <= n.start /\ n.end <= f.body.end}

\* C11: addBlockName fails for the names Infinity, NaN and undefined, for a
\* name that is already a lexical binding of the current block, and for a
\* name that is var-declared in the same function, the first lexical
\* declaration of a block included, so that no source with such a
\* declaration is parsed; a call that does not fail leaves the name
\* NonShadowable in the current block.
C11_AddBlockName ==
    /\ \A i \in DOMAIN trace :
          trace[i].op = "addBlockName" /\ ~trace[i].threw => trace[i].recorded
    /\ pc = "done" =>
          \A d \in Declared({"let", "const"}) :
             /\ d.name \notin Unshadowable
             /\ ~\E e \in Declared({"let", "const"}) :
                   /\ e.name = d.name /\ e.start < d.start
                   /\ BlocksAround(e) = BlocksAround(d)
             /\ ~\E v \in Declared({"var"}) :
                   /\ v.name = d.name /\ v.start < d.start
                   /\ FunctionsAround(v) = FunctionsAround(d)

(***************************************************************************)
(* Parenthesized groups and arrow functions.                               *)
(***************************************************************************)
MaxArrowLen == 1

\* A group whose first element is plain or wrapped in parentheses, followed
\* by up to MaxArrowLen runs of further elements, closed or not, with an
\* arrow after it or not.
ArrowHeads == {<<"(", "a">>, <<"(", "(", "a", ")">>, <<"(">>}

ArrowElements ==
    {<<",", "b">>, <<",", "(", "b", ")">>, <<",", "b", ",", "c">>, <<",">>}

ArrowTails ==
    {<<")", "=", ">", "1">>, <<")", "=", ">", "{", "}">>, <<")">>, <<")", ";">>,
     <<")", "LF", "=", ">", "1">>, <<>>}

ArrowChunks ==
    {h \o m \o t : h \in ArrowHeads, m \in Texts(ArrowElements, MaxArrowLen),
                   t \in ArrowTails}

InitArrow == Construct(ArrowChunks, {{"OptionsRanges"}}, {{}})

SpecArrow == InitArrow /\ [][NextParse]_vars

\* The arrow functions of the returned tree whose parameters stand in a
\* parenthesized group.
GroupArrows ==
    {f \in Descendants(returned) :
        f.type = "ArrowFunctionExpression" /\ source[f.start + 1] = "("}

\* The text without its white space.
Strip(text) == SelectSeq(text, LAMBDA c : c \notin WhiteSpace \cup LineTerminators)

\* C12: a parenthesized group one of whose elements, the first included, is
\* itself wrapped in parentheses is not parsed as the parameters of an arrow
\* function: in every arrow function returned, nothing but the opening
\* parenthesis stands before the first parameter and nothing but a comma
\* between two parameters; and the parameters of a group of plain
\* identifiers are those identifiers in order.
C12_ArrowParams ==
    pc = "done" =>
       \A f \in GroupArrows : \A i \in DOMAIN f.params :
          /\ i = 1 => Strip(slice(source, f.start, f.params[i].start)) = <<"(">>
          /\ i > 1 => Strip(slice(source, f.params[i - 1].end, f.params[i].start))
                         = <<",">>
          /\ f.params[i].type = "Identifier" =>
                f.params[i].name =
                   [string |-> slice(source, f.params[i].start, f.params[i].end)]

(***************************************************************************)
(* reinterpretExpressionAsPattern, applied to a node and then to the node  *)
(* it has become.  The nodes are the expressions and patterns of depth at  *)
(* most MaxPatternDepth over three leaves, with lists of at most           *)
(* MaxPatternLen members.                                                  *)
(***************************************************************************)
MaxPatternLen == 1

MaxPatternDepth == 2

PatternLeaves ==
    {[type |-> "Identifier", name |-> [string |-> <<"a">>]],
     [type |-> "MemberExpression",
      object |-> [type |-> "Identifier", name |-> [string |-> <<"a">>]],
      computed |-> FALSE,
      property |-> [type |-> "Identifier", name |-> [string |-> <<"b">>]]],
     [type |-> "Literal", value |-> [parseFloat |-> <<"1">>]]}

\* The properties an object literal or pattern holds over the nodes S.
PatternProperties(S) ==
    {[type |-> "Property", kind |-> k, computed |-> FALSE, method |-> FALSE,
      shorthand |-> FALSE,
      key |-> [type |-> "Identifier", name |-> [string |-> <<"k">>]],
      value |-> v] : k \in {"init", "get"}, v \in S}
    \cup {[type |-> "SpreadElement", argument |-> v] : v \in S}

\* The nodes one level above the nodes S.
PatternOver(S) ==
    {[type |-> "AssignmentExpression", left |-> l, operator |-> o,
      right |-> [type |-> "Literal", value |-> [parseFloat |-> <<"1">>]]] :
        l \in S, o \in {"=", "+="}}
    \cup {[type |-> "AssignmentPattern", left |-> l,
           right |-> [type |-> "Literal", value |-> [parseFloat |-> <<"1">>]]] :
             l \in S}
    \cup {[type |-> t, argument |-> v] :
             t \in {"SpreadElement", "RestElement"}, v \in S}
    \cup {[type |-> t, elements |-> e] :
             t \in {"ArrayExpression", "ArrayPattern"},
             e \in Strings(S \cup {Null}, MaxPatternLen)}
    \cup {[type |-> t, properties |-> e] :
             t \in {"ObjectExpression", "ObjectPattern"},
             e \in Strings(PatternProperties(S), MaxPatternLen)}

RECURSIVE PatternNodes(_)
PatternNodes(depth) ==
    IF depth = 0 THEN PatternLeaves
    ELSE PatternNodes(depth - 1) \cup PatternOver(PatternNodes(depth - 1))

InitPattern ==
    /\ source = <<>> /\ flags = {}
    /\ index = 0 /\ line = 1 /\ column = 0 /\ token = "EndOfSource"
    /\ tokenValue = [undefined |-> TRUE] /\ tokenRaw = <<>> /\ tokenRegExp = <<>>
    /\ startPos = 0 /\ startColumn = 0 /\ startLine = 0
    /\ endPos = 0 /\ endColumn = 0 /\ endLine = 0
    /\ comments = <<>> /\ labelSet = {} /\ functionScope = Undefined
    /\ blockScope = Undefined /\ parentScope = Undefined /\ scopes = <<>>
    /\ trace = <<>> /\ err = "none"
    /\ context \in {{}, {"ForStatement"}}
    /\ pc = "start" /\ saved = <<>> /\ ast = <<>>
    /\ returned \in PatternNodes(MaxPatternDepth)

\* this.reinterpretExpressionAsPattern(context, params) on the node held in
\* returned, which the call changes in place; the call is recorded in trace.
ReinterpretExpressionAsPattern ==
    /\ pc \in {"start", "once"} /\ err = "none"
    /\ \E p \in {reinterpretExpressionAsPattern(Self, context, returned)} :
          Assign([p EXCEPT !.trace = Append(@,
              [op |-> "reinterpretExpressionAsPattern", params |-> returned,
               threw |-> p.err # "none", result |-> p.ret])])
    /\ pc' = IF pc = "start" THEN "once" ELSE "twice"
    /\ UNCHANGED <<context, saved, ast>>

NextPattern == ReinterpretExpressionAsPattern

SpecPattern == InitPattern /\ [][NextPattern]_vars

PatternForm ==
    {"Identifier", "MemberExpression", "ArrayPattern", "ObjectPattern",
     "AssignmentPattern", "RestElement"}

\* C13: reinterpretExpressionAsPattern applied to a node in pattern form
\* (Identifier, MemberExpression, ArrayPattern, ObjectPattern,
\* AssignmentPattern, RestElement) throws nothing and leaves the node as it
\* is, and applied a second time to a node it has reinterpreted it throws
\* nothing and gives the node of the first application.
C13_Idempotent ==
    /\ pc = "once" /\ trace[1].params.type \in PatternForm =>
          ~trace[1].threw /\ trace[1].result = trace[1].params
    /\ pc = "twice" => ~trace[2].threw /\ trace[2].result = trace[1].result

(***************************************************************************)
(* The flags of a regular expression literal: the literal /a/ followed by  *)
(* at most MaxFlagLen flag characters, x standing for an identifier        *)
(* character that is no flag, and by the end of the statement.             *)
(***************************************************************************)
MaxFlagLen == 3

FlagChunks ==
    {<<"g">>, <<"i">>, <<"m">>, <<"s">>, <<"u">>, <<"y">>, <<"x">>, <<";">>}

InitFlags ==
    Construct({<<"/", "a", "/">> \o f : f \in Texts(FlagChunks, MaxFlagLen)},
              {{"OptionsRanges"}, {"OptionsRanges", "OptionsNext"}}, {{}})

SpecFlags == InitFlags /\ [][NextParse]_vars

\* The identifier characters that follow the literal /a/ of the source.
FlagsWritten ==
    LET after == SubSeq(source, 4, Len(source))
        stops == {k \in DOMAIN after : after[k] = ";"} \cup {Len(after) + 1}
    IN  SubSeq(after, 1, (CHOOSE k \in stops : \A j \in stops : k <= j) - 1)

AllowedFlags ==
    {"g", "i", "m", "u", "y"} \cup (IF "OptionsNext" \in flags THEN {"s"} ELSE {})

\* The positions of FlagsWritten that hold no flag, or a flag for the second
\* time.
BadFlags ==
    {k \in DOMAIN FlagsWritten :
        \/ FlagsWritten[k] \notin AllowedFlags
        \/ \E j \in 1..(k - 1) : FlagsWritten[j] = FlagsWritten[k]}

FirstBadFlag == CHOOSE k \in BadFlags : \A j \in BadFlags : k <= j

\* C14: the flags g, i, m, u, y, and s where next is set, may each come
\* once: the first character in flag position that repeats a flag is the
\* fatal error DuplicateRegExpFlag naming it, the first that is no flag
\* (s without next included) the fatal error UnexpectedTokenRegExpFlag, and
\* a sequence of distinct flags is accepted and stored as written.
C14_RegExpFlags ==
    pc \in {"done", "error"} =>
       IF BadFlags = {}
       THEN /\ pc = "done"
            /\ returned.body[1].expression.regex.flags = FlagsWritten
            /\ returned.body[1].expression.regex.pattern = <<"a">>
       ELSE /\ pc = "error"
            /\ IF FlagsWritten[FirstBadFlag] \in AllowedFlags
               THEN /\ err = "DuplicateRegExpFlag"
                    /\ trace[Len(trace)] =
                          [op |-> "error", type |-> "DuplicateRegExpFlag",
                           params |-> <<FlagsWritten[FirstBadFlag]>>]
               ELSE err = "UnexpectedTokenRegExpFlag"

\* The literal /a/ with three distinct flags, s among them, has been parsed.
C14_Witness ==
    /\ pc = "done" /\ "OptionsNext" \in flags
    /\ source = <<"/", "a", "/", "s", "g", "y">>
    /\ returned.body[1].expression.regex.flags = <<"s", "g", "y">>

(***************************************************************************)
(* The body of a regular expression literal: a slash followed by at most   *)
(* MaxBodyLen characters.                                                  *)
(***************************************************************************)
MaxBodyLen == 4

BodyChunks == {<<"a">>, <<"/">>, <<"\\">>, <<"[">>, <<"]">>, <<"LF">>}

InitBody ==
    Construct({<<"/">> \o b : b \in Texts(BodyChunks, MaxBodyLen)},
              {{"OptionsRanges"}}, {{}})

SpecBody == InitBody /\ [][NextParse]_vars

\* The character at position k of the source follows an odd number of
\* backslashes of the body.
Escaped(k) ==
    \E n \in 1..(k - 2) :
        /\ n % 2 = 1
        /\ \A j \in (k - n)..(k - 1) : source[j] = "\\"
        /\ k - n - 1 >= 2 => source[k - n - 1] # "\\"

\* Position k stands after an unescaped [ that no unescaped ] has closed.
InClass(k) ==
    \E j \in 2..(k - 1) :
        /\ source[j] = "[" /\ ~Escaped(j)
        /\ \A m \in (j + 1)..(k - 1) : source[m] = "]" => Escaped(m)

\* The positions where the body can end: an unescaped slash outside a class,
\* or an unescaped line terminator.
BodyBreaks ==
    {k \in 2..Len(source) :
        /\ ~Escaped(k)
        /\ \/ source[k] = "/" /\ ~InClass(k)
           \/ source[k] \in LineTerminators}

FirstBreak == CHOOSE k \in BodyBreaks : \A j \in BodyBreaks : k <= j

\* C15: where the slash at the start of the source opens a regular
\* expression, the body ends at the first slash that is neither escaped nor
\* in a character class and the characters before it are the pattern; where
\* the source ends or an unescaped line terminator comes before such a
\* slash the parse is fatal and no literal is produced.
C15_RegExpBody ==
    pc \in {"done", "error"} /\ Len(source) >= 2 /\ source[2] # "/" =>
       IF BodyBreaks = {} \/ source[FirstBreak] # "/"
       THEN pc = "error" /\ tokenRegExp = <<>>
       ELSE /\ \/ tokenRegExp # <<>>
               \/ err \in {"UnexpectedTokenRegExpFlag", "DuplicateRegExpFlag"}
            /\ FirstBreak = Len(source) => pc = "done"
            /\ pc = "done" =>
                  \E n \in RegExpLiterals :
                      /\ n.start = 0
                      /\ n.regex.pattern = slice(source, 1, FirstBreak - 1)

\* The literal whose class holds a slash has been parsed.
C15_Witness ==
    /\ pc = "done" /\ source = <<"/", "[", "/", "]", "/">>
    /\ returned.body[1].expression.regex.pattern = <<"[", "/", "]">>

(***************************************************************************)
(* The escapes \x and \u of a string literal: a string that holds one of   *)
(* them, followed by at most MaxEscapeLen runs of characters.              *)
(***************************************************************************)
MaxEscapeLen == 5

EscapeChunks ==
    {<<"4">>, <<"1">>, <<"g">>, <<"{">>, <<"}">>, <<"1", "1", "1", "1">>}

InitEscape ==
    Construct({<<"\"", "\\", k>> \o e \o <<"\"">> :
                  k \in {"x", "u"}, e \in Texts(EscapeChunks, MaxEscapeLen)},
              {{"OptionsRanges"}}, {{}})

SpecEscape == InitEscape /\ [][NextParse]_vars

\* The characters between the x or u of the escape and the closing quote.
EscapeText == SubSeq(source, 4, Len(source) - 1)

HexChars ==
    {"0", "1", "2", "3", "4", "5", "6", "7", "8", "9", "a", "b", "c", "d", "e",
     "f", "A", "B", "C", "D", "E", "F"}

\* The value of the digits, or 0x110000 where it is more than 0x10FFFF.
RECURSIVE HexValue(_)
HexValue(digits) ==
    IF digits = <<>> THEN 0
    ELSE LET value == 16 * HexValue(SubSeq(digits, 1, Len(digits) - 1))
                      + HexDigits[digits[Len(digits)]]
         IN  IF value > 1114111 THEN 1114112 ELSE value

\* The number of characters of EscapeText that a well-formed escape takes:
\* two digits after x, four after u, or the braces and their digits; 0 where
\* the escape is not well formed.
EscapeLen ==
    LET t == EscapeText
        closing == {i \in DOMAIN t : t[i] = "}"}
        close == CHOOSE i \in closing : \A j \in closing : i <= j
    IN  CASE source[3] = "x" ->
               IF Len(t) >= 2 /\ \A i \in 1..2 : t[i] \in HexChars THEN 2 ELSE 0
          [] source[3] = "u" /\ Len(t) >= 1 /\ t[1] = "{" ->
               IF /\ closing # {} /\ close > 2
                  /\ \A i \in 2..(close - 1) : t[i] \in HexChars
                  /\ HexValue(SubSeq(t, 2, close - 1)) <= 1114111
               THEN close ELSE 0
          [] OTHER ->
               IF Len(t) >= 4 /\ \A i \in 1..4 : t[i] \in HexChars THEN 4 ELSE 0

\* The hexadecimal digits of the well-formed escape.
EscapeDigits ==
    IF EscapeText[1] = "{" THEN SubSeq(EscapeText, 2, EscapeLen - 1)
    ELSE SubSeq(EscapeText, 1, EscapeLen)

\* C16: in a string literal \x takes exactly two hexadecimal digits and \u
\* exactly four, or one or more between braces with a value of at most
\* 0x10FFFF; another character in one of those positions, the last of the
\* four included, is a fatal error, and a well-formed escape is cooked to the
\* code point of that value.
C16_StringEscapes ==
    pc \in {"done", "error"} =>
       IF EscapeLen = 0 THEN pc = "error"
       ELSE /\ pc = "done"
            /\ returned.body[1].expression.value =
                  [string |-> fromCodePoint(HexValue(EscapeDigits))
                              \o SubSeq(EscapeText, EscapeLen + 1,
                                        Len(EscapeText))]


(***************************************************************************)
(* HTML-like comments: at most MaxHtmlLen runs of the comment markers,     *)
(* their parts, an identifier and blanks, scanned token by token with the  *)
(* comments collected.                                                     *)
(***************************************************************************)
MaxHtmlLen == 3

HtmlChunks ==
    {<<"<", "!", "-", "-">>, <<"-", "-", ">">>, <<"-", "-">>, <<">">>,
     <<"a">>, <<"LF">>, <<"SP">>}

InitHtml ==
    Construct(Texts(HtmlChunks, MaxHtmlLen), {{"OptionsOnComment"}}, {{}, {"Module"}})

SpecHtml == InitHtml /\ [][NextScan]_vars

\* The source holds the units of text from offset n on.
SourceHas(n, text) == slice(source, n, n + Len(text)) = text

HTMLOpen == <<"<", "!", "-", "-">>

HTMLClose == <<"-", "-", ">">>

\* Only blanks stand between offset n and the start of its line.
FirstOnLine(n) ==
    \A i \in 1..n :
        (\A j \in i..n : source[j] \notin LineTerminators) => source[i] \in WhiteSpace

\* The unit at offset n belongs to a collected comment.
InCollected(n) ==
    \E k \in DOMAIN comments : comments[k].start <= n /\ n < comments[k].end

\* The units the last scan passed over before the token it returned.
Skipped ==
    {n \in endPos..(index - 1) : token = "EndOfSource" \/ n < startPos}

\* C17: <!-- and --> are single-line comments only outside Module, and -->
\* only where nothing but blanks precedes it on its line; elsewhere their
\* characters are the tokens <, !, -- and >, and every unit a scan passes
\* over is a blank, a line terminator or part of a collected comment.
C17_HtmlComments ==
    pc = "scanned" =>
       /\ \A k \in DOMAIN comments :
             /\ SourceHas(comments[k].start, HTMLOpen) => "Module" \notin context
             /\ SourceHas(comments[k].start, HTMLClose) =>
                   "Module" \notin context /\ FirstOnLine(comments[k].start)
       /\ \A n \in Skipped :
             source[n + 1] \in WhiteSpace \cup LineTerminators \/ InCollected(n)
       /\ token # "EndOfSource" /\ SourceHas(startPos, HTMLClose) =>
             token = "Decrement" /\ index = startPos + 2
       /\ token # "EndOfSource" /\ SourceHas(startPos, HTMLOpen) =>
             token = "LessThan" /\ index = startPos + 1


(***************************************************************************)
(* The shebang: at most MaxShebangLen runs of #!, an identifier, blanks,   *)
(* line terminators, a semicolon and the opening of a line comment, both   *)
(* scanned token by token and parsed as a script.                          *)
(***************************************************************************)
MaxShebangLen == 4

ShebangChunks ==
    {<<"#", "!">>, <<"a">>, <<"SP">>, <<"LF">>, <<"CR">>, <<";">>, <<"/", "/">>}

InitShebang ==
    Construct(Texts(ShebangChunks, MaxShebangLen),
              {{"OptionsOnComment", "OptionsRanges"}}, {{}})

NextShebang == NextScan \/ NextParse

SpecShebang == InitShebang /\ [][NextShebang]_vars

LineEnds == {k \in DOMAIN source : source[k] \in LineTerminators}

\* The offset after the line of the shebang the source starts with, 0 where
\* it starts with none.
ShebangEnd ==
    IF ~SourceHas(0, <<"#", "!">>) THEN 0
    ELSE IF LineEnds = {} THEN Len(source)
    ELSE LET k == CHOOSE k \in LineEnds : \A j \in LineEnds : k <= j
         IN  IF source[k] = "CR" /\ SourceHas(k, <<"LF">>) THEN k + 1 ELSE k

\* C18: #! is a shebang only at offset 0 of the source: there the scanner
\* passes over it to the end of its line and past the line terminator with
\* no token and no collected comment, so that a source that is one shebang
\* line parses to a Program with an empty body; a # anywhere else is never
\* passed over outside a comment.
C18_Shebang ==
    /\ pc = "scanned" =>
          /\ \A n \in Skipped :
                \/ n < ShebangEnd
                \/ source[n + 1] \in WhiteSpace \cup LineTerminators
                \/ InCollected(n)
          /\ token # "EndOfSource" => startPos >= ShebangEnd
          /\ ShebangEnd > 0 => index >= ShebangEnd
    /\ pc \in {"scanned", "directives", "body", "done"} =>
          \A k \in DOMAIN comments : comments[k].start >= ShebangEnd
    /\ pc = "done" =>
          /\ \A k \in DOMAIN returned.body : returned.body[k].start >= ShebangEnd
          /\ ShebangEnd = Len(source) => returned.body = <<>>
    /\ ShebangEnd > 0 /\ ShebangEnd = Len(source) => pc # "error"

\* The script that is one shebang line has been parsed.
C18_Witness ==
    /\ pc = "done" /\ source = <<"#", "!", "a", "LF">>
    /\ returned.body = <<>> /\ comments = <<>> /\ index = 4


(***************************************************************************)
(* The tokens that start with <: at most MaxLessLen units of <, =, !, -,   *)
(* /, * and an identifier, scanned token by token with and without jsx, in *)
(* a script and in a module.                                               *)
(***************************************************************************)
MaxLessLen == 4

LessChunks == {<<"<">>, <<"=">>, <<"!">>, <<"-">>, <<"/">>, <<"*">>, <<"a">>}

InitLess ==
    Construct(Texts(LessChunks, MaxLessLen), {{}, {"OptionsJSX"}}, {{}, {"Module"}})

SpecLess == InitLess /\ [][NextScan]_vars

\* The longest token of the table that the source holds at offset n.
LongestLess(n) ==
    CASE SourceHas(n, <<"<", "<", "=">>) -> "ShiftLeftAssign"
      [] SourceHas(n, <<"<", "<">>) -> "ShiftLeft"
      [] SourceHas(n, <<"<", "=">>) -> "LessThanOrEqual"
      [] SourceHas(n, <<"<", "/">>) /\ "OptionsJSX" \in flags -> "JSXClose"
      [] OTHER -> "LessThan"

LessLength ==
    [ShiftLeftAssign |-> 3, ShiftLeft |-> 2, LessThanOrEqual |-> 2, JSXClose |-> 2,
     LessThan |-> 1]

\* C20: the token scanned at a < is the longest of <<=, <<, <=, </ (with
\* jsx only) and <, and the cursor ends right after it; <! that opens no
\* comment, and </ without jsx, are LessThan of one unit.
C20_LessThan ==
    pc = "scanned" /\ token # "EndOfSource" /\ SourceHas(startPos, <<"<">>) =>
       /\ token = LongestLess(startPos)
       /\ index = startPos + LessLength[LongestLess(startPos)]


(***************************************************************************)
(* throw and do as expressions: a script that opens with nothing, with a   *)
(* parenthesis or with an assignment, then throw, do or an identifier, and *)
(* at most MaxThrowLen runs of what can follow, parsed under every choice  *)
(* of the options next and v8.                                             *)
(***************************************************************************)
MaxThrowLen == 3

ThrowHeads == {<<>>, <<"(">>, <<"a", "=">>}

ThrowWords == {<<"t", "h", "r", "o", "w">>, <<"d", "o">>, <<"b">>}

ThrowChunks == {<<"SP", "a">>, <<"{", "}">>, <<"{", ";", "}">>, <<")">>, <<";">>}

InitThrow ==
    Construct({h \o w \o t : h \in ThrowHeads, w \in ThrowWords,
                              t \in Texts(ThrowChunks, MaxThrowLen)},
              {{"OptionsRanges"} \cup o : o \in SUBSET {"OptionsNext", "OptionsV8"}},
              {{}})

SpecThrow == InitThrow /\ [][NextParse]_vars

\* The source opens a primary expression and has the word there.
PrimaryIs(word) ==
    \E h \in ThrowHeads \ {<<>>} : SourceHas(0, h \o word)

\* C19: a ThrowExpression comes only of the word throw with next set, a
\* DoExpression only of the word do with v8 set; throw without next and do
\* without v8 at the start of a primary expression are fatal; and with next
\* set throw at the start of a statement is still a ThrowStatement.
C19_ThrowAndDo ==
    /\ pc = "done" =>
          /\ \A n \in Descendants(returned) :
                /\ n.type = "ThrowExpression" =>
                      /\ "OptionsNext" \in flags
                      /\ SourceHas(n.start, <<"t", "h", "r", "o", "w">>)
                /\ n.type = "DoExpression" =>
                      /\ "OptionsV8" \in flags
                      /\ SourceHas(n.start, <<"d", "o">>)
          /\ "OptionsNext" \notin flags => ~PrimaryIs(<<"t", "h", "r", "o", "w">>)
          /\ "OptionsV8" \notin flags => ~PrimaryIs(<<"d", "o">>)
          /\ "OptionsNext" \in flags /\ SourceHas(0, <<"t", "h", "r", "o", "w">>) =>
                returned.body[1].type = "ThrowStatement"

(***************************************************************************)
(* Flags.LineTerminator at the places that inspect it.                     *)
(***************************************************************************)
\* C21: whenever consumeSemicolon inspects Flags.LineTerminator, the flag is
\* set if and only if a line terminator lies between the end of the previous
\* token and the start of the current one; a scanned closing brace and the
\* flags restored after a block do not change that.
C21_LineTerminator ==
    \A i \in Consumed :
        trace[i].flagged <=>
            \E k \in DOMAIN trace[i].before :
                trace[i].before[k] \in LineTerminators

(***************************************************************************)
(* The Break, Continue and Switch flags around loops and switches.         *)
(***************************************************************************)
\* C22: the body of every while and do-while statement is parsed with both
\* the Break and the Continue flag set, whatever encloses the loop, and after
\* a loop or switch statement the Break, Continue and Switch flags are the
\* ones from before the statement.
C22_LoopFlags ==
    \A i \in DOMAIN trace :
        /\ trace[i].op = "iterationBody" =>
              {"Break", "Continue"} \subseteq trace[i].flags
        /\ trace[i].op = "jumpStatement" =>
              trace[i].before = trace[i].after

(***************************************************************************)
(* Escapes that are no escape: a string literal that holds a backslash and *)
(* one character, then at most MaxCookedLen runs of further source.        *)
(***************************************************************************)
MaxCookedLen == 3

CookedChars == {"TAB", "SP", "!", "a", "g", "z"}

CookedChunks == {<<";">>, <<"SP">>, <<"a">>, <<";", "a", ";", "b", ";">>}

InitCooked ==
    Construct({<<q, "\\", c, q>> \o rest :
                  q \in {"\"", "'"}, c \in CookedChars,
                  rest \in Texts(CookedChunks, MaxCookedLen)},
              {{}}, {{}})

SpecCooked == InitCooked /\ [][NextScan]_vars

\* C23: a backslash followed by a character that starts no escape cooks to
\* that character, whatever follows the literal in the source.
C23_CookedCharacter ==
    pc = "scanned" /\ startPos = 0 =>
       /\ token = "StringLiteral"
       /\ tokenValue = [string |-> <<source[3]>>]

(***************************************************************************)
(* nextUnicodeChar on sources of at most MaxUnitLen code units: the unit   *)
(* under the cursor, then the units the function reads.                    *)
(***************************************************************************)
MaxUnitLen == 3

Units == {65, 55295, 55296, 55360, 56319, 56320, 56321, 57343, 57344}

HighSurrogates == 55296..56319

LowSurrogates == 56320..57343

RECURSIVE UnitSources(_)
UnitSources(n) ==
    IF n = 0 THEN {<<>>}
    ELSE UnitSources(n - 1)
         \cup {Append(u, c) : u \in UnitSources(n - 1), c \in Units}

InitUnicode == Construct(UnitSources(MaxUnitLen) \ {<<>>}, {{}}, {{}})

NextUnicodeChar ==
    /\ pc = "start"
    /\ \E p \in {nextUnicodeChar(Self)} : Finish(p, "done")
    /\ UNCHANGED <<context, saved, ast>>

SpecUnicode == InitUnicode /\ [][NextUnicodeChar]_vars

\* C24: where the unit read is a high surrogate followed by a low surrogate,
\* nextUnicodeChar returns 0x10000 + ((hi - 0xD800) << 10) + (lo - 0xDC00),
\* a code point from 0x10000 to 0x10FFFF; for another unit it returns the
\* unit.
C24_SurrogatePair ==
    pc = "done" /\ index < Len(source) =>
       LET hi == source[index + 1]
       IN  IF /\ hi \in HighSurrogates
              /\ index + 1 < Len(source)
              /\ source[index + 2] \in LowSurrogates
           THEN /\ returned = 65536 + (hi - 55296) * 1024
                                    + (source[index + 2] - 56320)
                /\ returned \in 65536..1114111
           ELSE returned = hi

(***************************************************************************)
(* Comments and the probes: at most MaxCommentLen runs of the words that   *)
(* start a probe, comments of the three kinds, and what a probe looks for, *)
(* scanned token by token with the probes taken where the parser takes     *)
(* them and the comments collected.                                        *)
(***************************************************************************)
MaxCommentLen == 3

CommentChunks ==
    {<<"l", "e", "t">>, <<"a", "s", "y", "n", "c">>,
     <<"i", "m", "p", "o", "r", "t">>,
     <<"/", "*", "c", "*", "/">>, <<"/", "/", "d", "LF">>,
     <<"<", "!", "-", "-", "e", "LF">>,
     <<"x">>, <<"(">>, <<"SP">>}

InitComment ==
    Construct(Texts(CommentChunks, MaxCommentLen),
              {{"OptionsOnComment", "OptionsNext"}}, {{}})

SpecComment == InitComment /\ [][NextProbe]_vars

\* The first offset from n on where the source holds text, or the length of
\* the source.
RECURSIVE Find(_, _)
Find(n, text) ==
    IF n >= Len(source) THEN Len(source)
    ELSE IF SourceHas(n, text) THEN n
    ELSE Find(n + 1, text)

\* The comments of the source from offset n on, each with its type and the
\* offset where it ends: after the closing of a multi-line comment, and
\* after the line terminator of a single-line or HTML comment.
RECURSIVE CommentsFrom(_)
CommentsFrom(n) ==
    CASE n >= Len(source) -> <<>>
      [] SourceHas(n, <<"/", "*">>) ->
           LET end == Find(n + 2, <<"*", "/">>) + 2
           IN  <<[type |-> "MultiLineComment", end |-> end]>>
               \o CommentsFrom(end)
      [] SourceHas(n, <<"/", "/">>) \/ SourceHas(n, <<"<", "!", "-", "-">>) ->
           LET end == Find(n, <<"LF">>) + 1
           IN  <<[type |-> "SingleLineComment", end |-> end]>>
               \o CommentsFrom(end)
      [] OTHER -> CommentsFrom(n + 1)

\* The comments delivered so far, as CommentsFrom gives them.
Delivered ==
    [i \in DOMAIN comments |->
        [type |-> comments[i].type, end |-> comments[i].end]]

\* C25: the comments delivered are the comments of the source in source
\* order, each one once: at every moment the first ones of them, and all of
\* them when the end of the source has been scanned, also where a probe has
\* looked past a comment.
C25_CommentsOnce ==
    pc \in {"scanned", "probed"} =>
       /\ Len(Delivered) <= Len(CommentsFrom(0))
       /\ Delivered = SubSeq(CommentsFrom(0), 1, Len(Delivered))
       /\ pc = "scanned" /\ token = "EndOfSource" =>
              Delivered = CommentsFrom(0)

(***************************************************************************)
(* The side-channel flags between statements: at most MaxEarlierLen        *)
(* statements that are accepted on their own, then one statement more.     *)
(***************************************************************************)
MaxEarlierLen == 1

EarlierChunks ==
    {<<"(", "a", ".", "b", ")", ";">>,
     <<"(", "a", ",", ".", ".", ".", "b", ")", "=", ">", "0", ";">>,
     <<"a", "s", "y", "n", "c", "(", "x", ")", ";">>,
     <<"x", "=", "f", "u", "n", "c", "t", "i", "o", "n", "(", "e", "v", "a", "l", ")", "{", "}", ";">>,
     <<"(", "a", ")", ";">>,
     <<"a", ".", "b", ";">>}

LaterChunks ==
    {<<"(", "c", ")", "=", ">", "0">>,
     <<"f", "(", "y", ")", "=", ">", "1">>,
     <<"(", "c", ")">>,
     <<"f", "u", "n", "c", "t", "i", "o", "n", "SP", "g", "(", ")", "{", "\"", "u", "s", "e", "SP", "s", "t", "r", "i", "c", "t", "\"", "}">>,
     <<"c">>}

InitSide ==
    Construct({e \o l : e \in Texts(EarlierChunks, MaxEarlierLen),
                        l \in LaterChunks},
              {{}, {"OptionsRanges"}}, {{}})

SpecSide == InitSide /\ [][NextParse]_vars

SideFlags ==
    {"HasRest", "HasMemberExpression", "AsyncArrow", "HasEvalArgInParam",
     "HasReservedWord"}

\* The last statements that are accepted where they are the whole source.
AcceptedLater ==
    {l \in LaterChunks : l # <<"f", "(", "y", ")", "=", ">", "1">>}

\* C26: at the start of every statement-list item none of the flags HasRest,
\* HasMemberExpression, AsyncArrow, HasEvalArgInParam and HasReservedWord is
\* set, and whether the last statement is accepted does not depend on the
\* accepted statements before it.
C26_SideChannelFlags ==
    /\ pc \in {"directives", "body"} => flags \cap SideFlags = {}
    /\ pc \in {"done", "error"} =>
          (pc = "done" <=>
              \E e \in Texts(EarlierChunks, MaxEarlierLen), l \in AcceptedLater :
                  source = e \o l)

(***************************************************************************)
(* break and continue in a function nested in a loop or switch.            *)
(***************************************************************************)
FunctionTypes ==
    {"FunctionDeclaration", "FunctionExpression", "ArrowFunctionExpression"}

\* JumpsOk where a function starts afresh: what is around the function is
\* not around the statements of its body.
RECURSIVE OwnJumpsOk(_, _, _)
OwnJumpsOk(n, inLoop, inSwitch) ==
    CASE n.type = "BreakStatement" -> n.label # Null \/ inLoop \/ inSwitch
      [] n.type = "ContinueStatement" -> n.label # Null \/ inLoop
      [] n.type \in {"WhileStatement", "DoWhileStatement"} ->
           \A i \in DOMAIN Children(n) : OwnJumpsOk(Children(n)[i], TRUE, inSwitch)
      [] n.type = "SwitchStatement" ->
           \A i \in DOMAIN Children(n) : OwnJumpsOk(Children(n)[i], inLoop, TRUE)
      [] n.type \in FunctionTypes ->
           \A i \in DOMAIN Children(n) : OwnJumpsOk(Children(n)[i], FALSE, FALSE)
      [] OTHER ->
           \A i \in DOMAIN Children(n) : OwnJumpsOk(Children(n)[i], inLoop, inSwitch)

\* C27: a source with an unlabeled break or continue that has no iteration
\* or switch statement around it within its own function body is not
\* parsed, also where the function stands in a loop or switch.
C27_JumpsInFunction ==
    pc = "done" => OwnJumpsOk(returned, FALSE, FALSE)

(***************************************************************************)
(* Blocks and the scopes: at most MaxBlockLen declarations of two names,   *)
(* each at the top level or alone in a block.                              *)
(***************************************************************************)
MaxBlockLen == 3

BlockChunks ==
    {<<"{", "l", "e", "t", "SP", "a", ";", "}">>,
     <<"{", "l", "e", "t", "SP", "b", ";", "}">>,
     <<"l", "e", "t", "SP", "a", ";">>,
     <<"l", "e", "t", "SP", "b", ";">>,
     <<"v", "a", "r", "SP", "a", ";">>,
     <<"v", "a", "r", "SP", "b", ";">>}

InitBlock == Construct(Texts(BlockChunks, MaxBlockLen), {{}}, {{}})

SpecBlock == InitBlock /\ [][NextParse]_vars

\* The offsets of the declarations that stand at the top level.
TopDeclarations ==
    {n \in 0..(Len(source) - 1) :
        /\ SourceHas(n, <<"l", "e", "t", "SP">>)
              \/ SourceHas(n, <<"v", "a", "r", "SP">>)
        /\ n = 0 \/ source[n] # "{"}

\* C28: when parseBlockStatement returns, blockScope and parentScope are the
\* scopes they were when the block was entered, and no declaration fails
\* with DuplicateIdentifier unless the top level declares its name twice:
\* never because of a binding made in a block.
C28_BlockScopeRestored ==
    /\ \A i \in DOMAIN trace :
          trace[i].op = "parseBlockStatement" =>
             /\ trace[i].blockScope[1] = trace[i].blockScope[2]
             /\ trace[i].parentScope[1] = trace[i].parentScope[2]
    /\ err = "DuplicateIdentifier" =>
          \E m, n \in TopDeclarations : m # n /\ source[m + 5] = source[n + 5]

(***************************************************************************)
(* Binary expressions: an operand, then at most MaxOperatorLen times an    *)
(* operator and an operand, parsed as a script (AllowIn is set).           *)
(***************************************************************************)
MaxOperatorLen == 2

BinaryOperators ==
    {<<"<">>, <<"SP", "i", "n", "SP">>, <<"+">>, <<"-">>, <<"*">>, <<"*", "*">>,
     <<"=", "=">>, <<">", ">">>}

OperandNames == <<"a", "b", "c", "d", "e">>

RECURSIVE BinarySources(_)
BinarySources(n) ==
    IF n = 0 THEN {<<OperandNames[1]>>}
    ELSE {s \o op \o <<OperandNames[n + 1]>> :
             s \in BinarySources(n - 1), op \in BinaryOperators}

InitBinary ==
    Construct(UNION {BinarySources(n) : n \in 0..MaxOperatorLen}, {{}}, {{}})

SpecBinary == InitBinary /\ [][NextParse]_vars

\* The precedence of the operator that a node gives as its text.
PrecedenceOf(operator) ==
    Precedence[CHOOSE t \in DOMAIN Precedence : tokenDesc[t] = operator]

\* C29: two binary operators of equal precedence group to the left, but for
\* ** which groups to the right: no node but one of ** has a right operand
\* of its own precedence, and no node of ** a left operand of it; so
\* a < b in c has a < b as its left operand.
C29_LeftAssociative ==
    pc = "done" =>
       \A n \in Descendants(returned) :
          n.type = "BinaryExpression" =>
             /\ /\ n.right.type = "BinaryExpression"
                /\ PrecedenceOf(n.right.operator) = PrecedenceOf(n.operator)
                => n.operator = "**"
             /\ /\ n.left.type = "BinaryExpression"
                /\ PrecedenceOf(n.left.operator) = PrecedenceOf(n.operator)
                => n.operator # "**"

(***************************************************************************)
(* scanJSXString step by step: round after round of its loop, on a quote   *)
(* followed by at most MaxJSXLen characters.  The locals of the function   *)
(* are held in saved.  Past the end of the source every unit read is NaN   *)
(* and every round is the same round; the cursor is followed for           *)
(* MaxOverrun units there.                                                 *)
(***************************************************************************)
MaxJSXLen == 3

MaxOverrun == 2

JSXChunks == {<<"\"">>, <<"'">>, <<"a">>, <<"LF">>, <<"SP">>}

InitJSX ==
    Construct({<<q>> \o t : q \in {"\"", "'"}, t \in Texts(JSXChunks, MaxJSXLen)},
              {{"OptionsJSX"}, {"OptionsJSX", "OptionsRaw"}}, {{}})

\* scanJSXAttributeValue at a quote, and scanJSXString up to its loop.
ScanJSXAttributeValue ==
    /\ pc = "start" /\ nextChar(Self) \in {"\"", "'"}
    /\ startPos' = index /\ startColumn' = column /\ startLine' = line
    /\ saved' = [rawStart |-> index, quote |-> nextChar(Self),
                 start |-> index + 1, ch |-> "undefined"]
    /\ index' = index + 1 /\ column' = column + 1
    /\ pc' = "scanJSXString"
    /\ UNCHANGED <<source, line, flags, token, tokenValue, tokenRaw, tokenRegExp,
                   endPos, endColumn, endLine, comments, labelSet, functionScope,
                   blockScope, parentScope, scopes, trace, err, context,
                   returned, ast>>

\* One round of the loop of scanJSXString.
ScanJSXStringLoop ==
    /\ pc = "scanJSXString" /\ saved.ch # saved.quote
    /\ index < Len(source) + MaxOverrun
    /\ IF saved.ch \in LineTerminators
       THEN /\ err' = "UnterminatedString" /\ pc' = "error"
            /\ UNCHANGED <<index, column, saved>>
       ELSE /\ index' = index + 1 /\ column' = column + 1
            /\ saved' = [saved EXCEPT !.ch = charCodeAt(source, index + 1)]
            /\ UNCHANGED <<err, pc>>
    /\ UNCHANGED <<source, line, flags, token, tokenValue, tokenRaw, tokenRegExp,
                   startPos, startColumn, startLine, endPos, endColumn, endLine,
                   comments, labelSet, functionScope, blockScope, parentScope,
                   scopes, trace, context, returned, ast>>

\* scanJSXString after its loop.
ScanJSXStringEnd ==
    /\ pc = "scanJSXString" /\ saved.ch = saved.quote
    /\ tokenValue' = [string |-> slice(source, saved.start, index)]
    /\ index' = index + 1 /\ column' = column + 1
    /\ tokenRaw' = IF "OptionsRaw" \in flags
                   THEN slice(source, saved.rawStart, index + 1) ELSE tokenRaw
    /\ token' = "StringLiteral" /\ pc' = "scanned"
    /\ UNCHANGED <<source, line, flags, tokenRegExp, startPos, startColumn,
                   startLine, endPos, endColumn, endLine, comments, labelSet,
                   functionScope, blockScope, parentScope, scopes, trace, err,
                   context, saved, returned, ast>>

NextJSX ==
    \/ ScanJSXAttributeValue
    \/ ScanJSXStringLoop
    \/ ScanJSXStringEnd

\* The scanner runs on as long as it has a step to take.
SpecJSX == InitJSX /\ [][NextJSX]_vars /\ WF_vars(NextJSX)

\* C30: the scan of a JSX attribute string terminates, with a token or with
\* a fatal error; a string with no closing quote before the end of the
\* source ends in the error.
C30_Terminates == <>(pc \in {"scanned", "error"})

====
